---- MODULE Spec2Model ----
(***************************************************************************)
(* Model of the concurrent batch dispatcher of src/ifk/analyze.py:         *)
(* ConsolidatedMarketValidator.validate_and_analyze_markets, process_batch *)
(* and save_results, OpenRouterClient and main.                            *)
(*                                                                         *)
(* A market record is [id, preparable, markets_detail]: id is its position *)
(* in the input document, markets_detail its list of details, preparable   *)
(* says whether create_consolidated_prompt returned for the record as it   *)
(* was loaded (it raises KeyError when a detail has no 'question').        *)
(*                                                                         *)
(* Model of the response repair and of the domain aggregation of           *)
(* src/synth.py: clean_json_content, parse_analysis_safely (RepairSpec)    *)
(* and build_domain_context (AggregatorSpec).  Model of the request        *)
(* builder of src/ifk/analyze.py, create_consolidated_prompt (BuilderSpec) *)
(* and of the document loaders parse_markets of src/clean.py and           *)
(* src/test2.py (LoaderSpec).  IsolationSpec calls build_domain_context    *)
(* again without one entry, ViewsSpec runs categorize_markets of           *)
(* src/clean.py and build_domain_context on the same analyzed markets.     *)
(* The parts have their own variables and specifications; each leaves the  *)
(* others' variables unchanged.                                            *)
(***************************************************************************)
EXTENDS Integers, Sequences, FiniteSets, TLC

\* Bounds of the model.
MaxMarkets == 3
MaxBatchSize == 2

VARIABLES
    data,              \* self.data['markets'], the ordered input records
    batch_size,        \* self.batch_size
    api_key,           \* whether OPENROUTER_API_KEY is set in the environment
    pc,                \* position of main / validate_and_analyze_markets
    i,                 \* loop variable of validate_and_analyze_markets
    batch_number,      \* batch_number of the current iteration
    batch,             \* the slice all_markets[i:i + batch_size]
    market_contents,   \* process_batch: prompts handed to the client
    market_details,    \* process_batch: details, parallel to market_contents
    tasks,             \* analyze_markets_batch: one task per prompt
    analysis_results,  \* what asyncio.gather returned
    batch_results,     \* process_batch: its return value
    results,           \* validate_and_analyze_markets: accumulated results
    checkpoints,       \* the files save_results has written, in order
    final_file,        \* the final consolidated file written by main, <<>> if none
    sessions,          \* every aiohttp.ClientSession created: "open" / "closed"
    error,             \* the exception that left main, "none" if none
    issued,            \* history: batch number in which record k's request was sent
    issued_on,         \* history: state of the client's session when it was sent
    responses,         \* history: how the remote call of record k ended
    batch_log,         \* history: the id lists of the batches sliced so far
    delays,            \* history: the delays awaited between batches so far
    completed          \* history: the records of the batch, as their requests ended

\* parse_analysis_safely (src/synth.py), one call of it.
VARIABLES
    r_pc,              \* position in parse_analysis_safely, "off" when not called
    r_analysis,        \* market.get('analysis'): [kind, text, obj]
    r_content,         \* content: [is_str, text]
    r_candidate,       \* what clean_json_content returned
    r_text,            \* cleaned_content
    r_error,           \* the JSONDecodeError of the first json.loads
    r_before,          \* cleaned_content before the structural repair
    r_rewrites,        \* the structural rewrites applied
    r_parses,          \* number of json.loads calls
    r_result,          \* the value returned (NoneVal for None)
    r_caught,          \* the exception the outer handler caught, "none" if none
    r_round,           \* 1: the call on the input; 2: the call on its own output
    r_first            \* the result of round 1, during round 2

repair_vars == <<r_pc, r_analysis, r_content, r_candidate, r_text, r_error,
                 r_before, r_rewrites, r_parses, r_result, r_caught, r_round,
                 r_first>>

\* build_domain_context (src/synth.py), one call of it.
VARIABLES
    a_pc,              \* position in build_domain_context, "off" when not called
    a_data,            \* data['results']
    a_domain,          \* domain
    a_next,            \* the position in data['results'] the loop is at
    a_domain_markets,  \* domain_markets
    a_context,         \* the context returned
    a_round,           \* 1: the call on the data; 2: the call after scores were
                       \* raised; 3: the call without one defective entry
    a_first            \* the context round 1 returned, during round 2

agg_vars == <<a_pc, a_data, a_domain, a_next, a_domain_markets, a_context,
              a_round, a_first>>

\* create_consolidated_prompt (src/ifk/analyze.py), calls of it on one record.
VARIABLES
    b_pc,              \* "off" when the builder is not called, else "on"
    b_input,           \* market['markets_detail'] as it was loaded
    b_details,         \* market['markets_detail'], the list object itself
    b_calls,           \* what the successive calls on the record returned
    b_equal            \* what a call on an equal record returned, <<>> before

builder_vars == <<b_pc, b_input, b_details, b_calls, b_equal>>

\* parse_markets (src/clean.py and src/test2.py), one call of it.
VARIABLES
    l_pc,              \* position in parse_markets, "off" when not called
    l_loader,          \* which parse_markets: "clean" or "test2"
    l_file,            \* the text of the input file
    l_content,         \* content (clean.py), clean_content (test2.py)
    l_parses,          \* number of json.loads calls
    l_repairs,         \* number of repairs applied to the text
    l_raw_data,        \* raw_data / data, NoneVal while unbound
    l_error            \* how loading failed, "none" if it did not

loader_vars == <<l_pc, l_loader, l_file, l_content, l_parses, l_repairs,
                 l_raw_data, l_error>>

\* categorize_markets (src/clean.py), one call of it on the markets that
\* build_domain_context is called on.
VARIABLES
    c_pc,              \* "off" when it is not called, "call", "done", "raised"
    c_categories       \* categories: per category the markets listed, <<>> before

categorize_vars == <<c_pc, c_categories>>

\* The variables of the pure functions, which the dispatcher never touches.
pure_vars == <<repair_vars, agg_vars, builder_vars, loader_vars, categorize_vars>>

dispatcher_vars == <<data, batch_size, api_key, pc, i, batch_number, batch, market_contents,
          market_details, tasks, analysis_results, batch_results, results,
          checkpoints, final_file, sessions, error, issued, issued_on,
          responses, batch_log, delays, completed>>

vars == <<dispatcher_vars, pure_vars>>

\* What a call of one pure function leaves alone besides its own variables.
outside_repair ==
    <<dispatcher_vars, agg_vars, builder_vars, loader_vars, categorize_vars>>
outside_aggregator ==
    <<dispatcher_vars, repair_vars, builder_vars, loader_vars, categorize_vars>>
outside_builder ==
    <<dispatcher_vars, repair_vars, agg_vars, loader_vars, categorize_vars>>
outside_loader ==
    <<dispatcher_vars, repair_vars, agg_vars, builder_vars, categorize_vars>>
outside_categorize ==
    <<dispatcher_vars, repair_vars, agg_vars, builder_vars, loader_vars>>

Min(a, b) == IF a < b THEN a ELSE b

\* How one remote call can end: a 2xx body with choices[0].message.content,
\* a 2xx body without it, a non-2xx status, a connection error, a body that
\* does not decode.
ResponseKinds == {"ok", "no_choices", "non_2xx", "conn_error", "decode_error"}

\* The kinds on which analyze_market raises: session.post raises,
\* response.raise_for_status() raises, response.json() raises.
RaisingKinds == {"non_2xx", "conn_error", "decode_error"}

\* OpenRouterClient.analyze_market: returns response.json() as it is, or logs
\* and re-raises.
analyze_market(content, kind) ==
    [state |-> "done", exc |-> kind \in RaisingKinds, value |-> kind, for |-> content]

PendingTask(content) ==
    [state |-> "pending", exc |-> FALSE, value |-> "none", for |-> content]

\* asyncio.gather(*tasks, return_exceptions=True)
return_exceptions_false == FALSE
return_exceptions == TRUE

\* OpenRouterClient.__aexit__: closes the session the client holds (the last
\* one created).
aexit_leaves_open(s) == s
aexit(s) ==
    IF Len(s) = 0 THEN s ELSE [s EXCEPT ![Len(s)] = "closed"]

\* all_markets[i:i + self.batch_size]
BatchSlice_overlap(all, from, size) ==
    SubSeq(all, from + 1, Min(from + size + 1, Len(all)))
BatchSlice(all, from, size) ==
    SubSeq(all, from + 1, Min(from + size, Len(all)))

(***************************************************************************)
(* Analysis request builder (src/ifk/analyze.py): create_consolidated_     *)
(* prompt and the functions it calls.                                      *)
(*                                                                         *)
(* A question is a sequence of words; the currency symbol "$" is a word of *)
(* its own.  A detail is [id, question, outcomePrices]: question is        *)
(* MissingKey when the detail has no 'question' key, outcomePrices is the  *)
(* list of prices in percent, <<>> when it is None, empty or not a list.   *)
(* The date stamp of the prompt is fixed and left out.                     *)
(***************************************************************************)

\* F(x), with x evaluated once before F is applied to its value: what a call
\* with an argument does in Python.
Apply(F(_), x) == CHOOSE y \in {F(v) : v \in {x}} : TRUE

MissingKey == <<"<no such key>">>

\* The words in which question.lower() has 'reach', 'dip'.
ReachWords == {"reach", "Reach"}
DipWords == {"dip", "Dip"}
HasWord(question, words) == \E j \in 1..Len(question) : question[j] \in words

\* is_price_market
is_price_market(question) ==
    /\ HasWord(question, {"$"})
    /\ (HasWord(question, ReachWords) \/ HasWord(question, DipWords))

\* question.split('$')[1].split()[0]: the first word between the first "$"
\* and the next one; IndexError when there is no "$" or no word there.
AfterDollar(question) ==
    IF ~HasWord(question, {"$"}) THEN [ok |-> FALSE, word |-> ""]
    ELSE LET d == CHOOSE j \in 1..Len(question) :
                      /\ question[j] = "$"
                      /\ \A h \in 1..(j - 1) : question[h] # "$"
         IN  IF d = Len(question) \/ question[d + 1] = "$"
             THEN [ok |-> FALSE, word |-> ""]
             ELSE [ok |-> TRUE, word |-> question[d + 1]]

\* float(price_str.replace(',', '')): ValueError for a word that is no number.
Float(word) ==
    CASE word = "100" -> [ok |-> TRUE, value |-> 100]
      [] word = "200" -> [ok |-> TRUE, value |-> 200]
      [] word = "1,000" -> [ok |-> TRUE, value |-> 1000]
      [] OTHER -> [ok |-> FALSE, value |-> 0]

\* extract_price: 0.0 on IndexError and ValueError.
extract_price(question) ==
    LET word == AfterDollar(question)
    IN  IF word.ok /\ Float(word.word).ok THEN Float(word.word).value ELSE 0

\* parse_outcome_prices: the first listed price, 0.0 when there is none.
parse_outcome_prices(detail) ==
    IF Len(detail.outcomePrices) > 0 THEN detail.outcomePrices[1] ELSE 0

\* details.sort(key=lambda x: self.extract_price(x['question'])): ascending
\* and stable, on the list object itself.
sort_by_price(details) ==
    LET n == Len(details)
        Before(p) == {q \in 1..n :
                        \/ extract_price(details[q].question)
                              < extract_price(details[p].question)
                        \/ /\ extract_price(details[q].question)
                                 = extract_price(details[p].question)
                           /\ q < p}
    IN  [r \in 1..n |-> details[CHOOSE p \in 1..n : Cardinality(Before(p)) = r - 1]]

\* What a call of the builder leaves: whether it raised, the list object it
\* was given as it is afterwards, and the prompt it returned.
NoPrompt == [variant |-> "none", template |-> FALSE, end_date_of |-> 0, lines |-> <<>>]
Raised(details) == [raised |-> TRUE, details |-> details, prompt |-> NoPrompt]
Built(details, prompt) == [raised |-> FALSE, details |-> details, prompt |-> prompt]

HasAllQuestions(details) ==
    \A j \in 1..Len(details) : details[j].question # MissingKey

\* One line of the price ladder: "$<price>: <direction> (<probability>)".
PriceOption(detail) ==
    [text |-> <<"$", AfterDollar(detail.question).word, ":",
                IF HasWord(detail.question, ReachWords) THEN "reach" ELSE "dip to">>,
     probability |-> parse_outcome_prices(detail)]

\* One line of the question list: "<question> (<probability>)".
QuestionOption(detail) ==
    [text |-> detail.question, probability |-> parse_outcome_prices(detail)]

\* create_price_market_prompt: the key function raises KeyError on a detail
\* without question, and the list is then as it was; line 156 raises
\* IndexError, after the sort, when no word follows the "$".  Details that
\* are no price question are left out of the ladder.
create_price_market_prompt(details) ==
    IF ~HasAllQuestions(details) THEN Raised(details)
    ELSE Apply(LAMBDA sorted :
           Apply(LAMBDA priced :
             IF \E j \in 1..Len(priced) : ~AfterDollar(priced[j].question).ok
             THEN Raised(sorted)
             ELSE Built(sorted,
                        [variant |-> "price", template |-> TRUE,
                         end_date_of |-> sorted[1].id,
                         lines |-> [j \in 1..Len(priced) |-> PriceOption(priced[j])]]),
             SelectSeq(sorted, LAMBDA d : is_price_market(d.question))),
           sort_by_price(details))

\* create_regular_market_prompt: detail['question'] raises KeyError.
create_regular_market_prompt(details) ==
    IF ~HasAllQuestions(details) THEN Raised(details)
    ELSE Built(details,
               [variant |-> "regular", template |-> TRUE,
                end_date_of |-> details[1].id,
                lines |-> [j \in 1..Len(details) |-> QuestionOption(details[j])]])

\* create_consolidated_prompt(market, market.get('markets_detail', [])): the
\* variant is chosen on the first question; without details the prompt is
\* "No market details available", with no assessment template.
create_consolidated_prompt(details) ==
    IF details = <<>>
    THEN Built(details, [variant |-> "no details", template |-> FALSE,
                         end_date_of |-> 0, lines |-> <<>>])
    ELSE IF details[1].question = MissingKey THEN Raised(details)
    ELSE IF is_price_market(details[1].question)
         THEN create_price_market_prompt(details)
         ELSE create_regular_market_prompt(details)

\* The questions and details the records are drawn from.
ReachHigh == <<"Will", "BTC", "reach", "$", "200">>
ReachLow == <<"Will", "BTC", "Reach", "$", "100">>
DipLow == <<"Will", "BTC", "dip", "to", "$", "100">>
ReachUnparsed == <<"Will", "BTC", "reach", "$", "100?">>
ReachHighUnparsed == <<"Will", "BTC", "reach", "$", "200?">>
ReachNothing == <<"Will", "BTC", "reach", "$">>
Cost == <<"Will", "it", "cost", "$", "1,000">>
Win == <<"Will", "X", "win">>
Questions == {ReachHigh, ReachLow, DipLow, ReachUnparsed, ReachHighUnparsed,
              ReachNothing, Cost, Win, MissingKey}
OutcomePrices == {<<>>, <<70, 30>>}
Detail(id, question, prices) ==
    [id |-> id, question |-> question, outcomePrices |-> prices]

\* process_batch, first loop: a record whose preparation raises is logged and
\* skipped; the others contribute one prompt and one details entry each.
\* The outcome of the preparation is held in the record (see Record): sorting
\* the details does not change it.
Preparable(m) == m.preparable
Prepared(b) == SelectSeq(b, Preparable)
PromptsOf(b) == [t \in 1..Len(Prepared(b)) |-> [prompt_of |-> Prepared(b)[t].id]]
DetailsOf_before_prompt(b) == [t \in 1..Len(b) |-> [ticker |-> b[t].id]]
DetailsOf(b) == [t \in 1..Len(Prepared(b)) |-> [ticker |-> Prepared(b)[t].id]]

\* process_batch, second loop: zip(market_details, analysis_results); an
\* analysis that is an Exception is logged and skipped.
RECURSIVE Combine_newest_first(_, _)
Combine_newest_first(details, analyses) ==
    IF details = <<>> \/ analyses = <<>> THEN <<>>
    ELSE LET rest == Combine_newest_first(Tail(details), Tail(analyses))
         IN  IF Head(analyses).exc THEN rest
             ELSE rest \o <<[market_details |-> Head(details),
                             analysis |-> Head(analyses)]>>
RECURSIVE Combine(_, _)
Combine(details, analyses) ==
    IF details = <<>> \/ analyses = <<>> THEN <<>>
    ELSE LET rest == Combine(Tail(details), Tail(analyses))
         IN  IF Head(analyses).exc THEN rest
             ELSE <<[market_details |-> Head(details),
                     analysis |-> Head(analyses)]>> \o rest

\* results.extend(batch_results)
extend_replaces(acc, more) == more
extend(acc, more) == acc \o more

\* The document save_results and main dump.
Document(res) == [total_markets |-> Len(res), results |-> res]

Ids == 1..Len(data)

(***************************************************************************)
(* Response repair engine (src/synth.py).                                  *)
(*                                                                         *)
(* A text is a sequence of symbols.  A symbol is one character ("{", "\"", *)
(* ...) or a run of characters the code never splits: the fence markers    *)
(* (three backticks followed by json, three backticks), and words such as  *)
(* "economic_indicators".  The symbol "n" is the letter n, "e_acute" a     *)
(* character outside ASCII.                                                *)
(***************************************************************************)

Q == "\""
BS == "\\"
NL == "\n"
SP == " "
FenceJson == "<fence json>"
Fence == "<fence>"
NonAscii == {"e_acute"}
Whitespace == {SP, NL}
Digits == {"9", "6", "5"}
DomainKeys == <<"economic_indicators", "geopolitical_events",
                "regulatory_changes", "technological_developments">>

\* str.replace(pat, rep): the leftmost match is replaced, then the matches
\* in the text after it; what was replaced is not scanned again.
MinOf(S) == CHOOSE x \in S : \A y \in S : x <= y

RECURSIVE Replace(_, _, _)
Replace(s, pat, rep) ==
    LET m == Len(pat)
        matches == {j \in 1..(Len(s) - m + 1) : SubSeq(s, j, j + m - 1) = pat}
    IN  IF matches = {} THEN s
        ELSE LET j == MinOf(matches) IN
             SubSeq(s, 1, j - 1) \o rep
                 \o Apply(LAMBDA rest : Replace(rest, pat, rep),
                          SubSeq(s, j + m, Len(s)))

\* str.lstrip / str.rstrip / str.strip
RECURSIVE LStrip(_)
LStrip(s) ==
    IF s # <<>> /\ Head(s) \in Whitespace THEN LStrip(Tail(s)) ELSE s
RECURSIVE RStrip(_)
RStrip(s) ==
    IF s # <<>> /\ s[Len(s)] \in Whitespace
    THEN RStrip(SubSeq(s, 1, Len(s) - 1)) ELSE s
Strip(s) == RStrip(LStrip(s))

StartsWith(s, pat) == Len(s) >= Len(pat) /\ SubSeq(s, 1, Len(pat)) = pat
EndsWith(s, pat) ==
    Len(s) >= Len(pat) /\ SubSeq(s, Len(s) - Len(pat) + 1, Len(s)) = pat

\* clean_json_content: the opening fence line is cut from the start, the
\* closing fence line from the end, then the text is stripped.  A content
\* that is no str raises ValueError inside, which is caught there: "" is
\* returned.  A content is [is_str, text].
CutOpeningFence(s) ==
    IF StartsWith(s, <<FenceJson, NL>>) THEN SubSeq(s, 3, Len(s)) ELSE s
CutClosingFence(s) ==
    IF EndsWith(s, <<NL, Fence>>) THEN SubSeq(s, 1, Len(s) - 2) ELSE s
clean_json_content(content) ==
    IF ~content.is_str THEN <<>>
    ELSE Apply(Strip, Apply(CutClosingFence, CutOpeningFence(content.text)))

(***************************************************************************)
(* extract_json_from_markdown (src/clean.py): the fenced block tagged as   *)
(* JSON, found by re.search of  <fence json> NL (.*?) NL <fence>  with     *)
(* DOTALL.  The three backticks that close a block are also the first      *)
(* three of a json fence marker.                                           *)
(***************************************************************************)
OpensAt(s, j) == s[j] = FenceJson /\ s[j + 1] = NL
ClosesAt(s, j) == s[j] = NL /\ s[j + 1] \in {Fence, FenceJson}
Blocks(s) ==
    UNION {{<<open, close>> :
                close \in {j \in (open + 2)..(Len(s) - 1) : ClosesAt(s, j)}} :
           open \in {j \in 1..(Len(s) - 1) : OpensAt(s, j)}}
HasFencedBlock(s) == Blocks(s) # {}
\* group(1): the leftmost opening that has a closing, up to its nearest closing.
FencedInterior(s) ==
    LET open == MinOf({b[1] : b \in Blocks(s)})
        close == MinOf({b[2] : b \in {c \in Blocks(s) : c[1] = open}})
    IN  SubSeq(s, open + 2, close - 1)

\* .encode('ascii', 'ignore').decode()
IsAscii(c) == c \notin NonAscii
AsciiIgnore(s) == SelectSeq(s, IsAscii)

\* parse_analysis_safely, "Fix common JSON formatting issues".
FixTypo(s) == Replace(s, <<"reascoreoning">>, <<"reasoning">>)
RemoveNewlines(s) == Replace(s, <<NL>>, <<>>)
RemoveEscapedNewlines(s) == Replace(s, <<BS, "n">>, <<>>)
FixEscapedQuotes(s) == Replace(s, <<BS, Q>>, <<Q>>)
FixDoubleQuotes(s) == Replace(s, <<Q, Q>>, <<Q>>)
Normalize(s) ==
    Apply(AsciiIgnore,
     Apply(Strip,
      Apply(FixDoubleQuotes,
       Apply(FixEscapedQuotes,
        Apply(RemoveEscapedNewlines,
         Apply(RemoveNewlines, FixTypo(s)))))))

(***************************************************************************)
(* json.loads on texts: objects, arrays, strings, numbers of the digits     *)
(* above and the literals true and false.  Positions are 0-based as in     *)
(* Python.                                                                 *)
(***************************************************************************)

\* The character at 0-based position p, "" past the end (s[p:p + 1]).
At(s, p) == IF p + 1 <= Len(s) THEN s[p + 1] ELSE ""

\* WHITESPACE.match(s, p).end()
RECURSIVE SkipWs(_, _)
SkipWs(s, p) == IF At(s, p) \in Whitespace THEN SkipWs(s, p + 1) ELSE p

\* JSON values and None.
NoneVal == [t |-> "none", s |-> <<>>, kv |-> <<>>]
StrVal(chars) == [t |-> "str", s |-> chars, kv |-> <<>>]
NumVal(digits) == [t |-> "num", s |-> digits, kv |-> <<>>]
LitVal(name) == [t |-> name, s |-> <<>>, kv |-> <<>>]
ObjVal(pairs) == [t |-> "obj", s |-> <<>>, kv |-> pairs]
\* A list: its items are kept in kv with empty keys.
ArrVal(items) == [t |-> "arr", s |-> <<>>, kv |-> items]

Ok(v, e) == [ok |-> TRUE, val |-> v, end |-> e, err |-> "none", pos |-> 0]
Err(class, p) == [ok |-> FALSE, val |-> NoneVal, end |-> 0, err |-> class, pos |-> p]

\* The characters a backslash escape stands for in a string, <<>> when the
\* escape is invalid.  A word after a backslash gives the escape of its first
\* letter followed by the rest of the word.  The scanner rejects a \u escape
\* whose last digit is the last character of the text.
EscapeOf(c) ==
    CASE c = Q -> <<Q>>
      [] c = BS -> <<BS>>
      [] c = "n" -> <<NL>>
      [] c = "true" -> <<"<TAB>rue">>
      [] c = "false" -> <<"<FF>alse">>
      [] c = "reasoning" -> <<"<CR>easoning">>
      [] c = "relevance" -> <<"<CR>elevance">>
      [] c = "regulatory_changes" -> <<"<CR>egulatory_changes">>
      [] c = "technological_developments" -> <<"<TAB>echnological_developments">>
      [] c = "u00e9" -> <<"e_acute">>
      [] OTHER -> <<>>

\* scanstring(s, end): begin is the position of the opening quote.
RECURSIVE ScanString(_, _, _, _)
ScanString(s, begin, end, acc) ==
    LET c == At(s, end) IN
    IF c = "" THEN Err("unterminated", begin)
    ELSE IF c = Q THEN Ok(StrVal(acc), end + 1)
    ELSE IF c = NL THEN Err("control_char", end)
    ELSE IF c = BS
         THEN LET esc == At(s, end + 1) IN
              IF esc = "" THEN Err("unterminated", begin)
              ELSE IF EscapeOf(esc) = <<>> THEN Err("escape", end)
              ELSE IF esc = "u00e9" /\ At(s, end + 2) = "" THEN Err("escape", end)
              ELSE ScanString(s, begin, end + 2, acc \o EscapeOf(esc))
         ELSE ScanString(s, begin, end + 1, Append(acc, c))

\* NUMBER_RE.match: the longest run of digits.
RECURSIVE ScanNumber(_, _, _)
ScanNumber(s, end, acc) ==
    IF At(s, end) \in Digits THEN ScanNumber(s, end + 1, Append(acc, At(s, end)))
    ELSE Ok(NumVal(acc), end)

\* dict(pairs): a later pair with the same key replaces the value in place.
HasKey(pairs, k) == \E j \in 1..Len(pairs) : pairs[j].k = k
Put(pairs, k, v) ==
    IF HasKey(pairs, k)
    THEN [j \in 1..Len(pairs) |-> IF pairs[j].k = k THEN [k |-> k, v |-> v]
                                  ELSE pairs[j]]
    ELSE Append(pairs, [k |-> k, v |-> v])

\* dict.get(k): the value of key k, None when v is no dict or has no such key.
Get(v, k) ==
    IF v.t = "obj" /\ HasKey(v.kv, <<k>>)
    THEN v.kv[CHOOSE j \in 1..Len(v.kv) : v.kv[j].k = <<k>>].v
    ELSE NoneVal

RECURSIVE ParseValue(_, _)
RECURSIVE ParsePairs(_, _, _)

\* JSONArray: end is the position after the opening bracket.
RECURSIVE ParseItems(_, _, _)
ParseArray(s, end) ==
    LET e1 == SkipWs(s, end) IN
    IF At(s, e1) = "]" THEN Ok(ArrVal(<<>>), e1 + 1)
    ELSE ParseItems(s, e1, <<>>)

\* JSONArray, the loop: end is the position of the next item.
ParseItems(s, end, items) ==
    Apply(LAMBDA v :
        IF ~v.ok THEN v
        ELSE LET e2 == SkipWs(s, v.end)
                 nc == At(s, e2)
             IN  Apply(LAMBDA more :
                     IF nc = "]" THEN Ok(ArrVal(more), e2 + 1)
                     ELSE IF nc # "," THEN Err("comma", e2)
                     ELSE ParseItems(s, SkipWs(s, e2 + 1), more),
                   Append(items, [k |-> <<>>, v |-> v.val])),
      ParseValue(s, end))


\* JSONObject: end is the position after the opening brace.
ParseObject(s, end) ==
    LET e1 == IF At(s, end) # Q THEN SkipWs(s, end) ELSE end
        nc == At(s, e1)
    IN  IF nc = "}" THEN Ok(ObjVal(<<>>), e1 + 1)
        ELSE IF nc # Q THEN Err("property_name", e1)
        ELSE ParsePairs(s, e1 + 1, <<>>)

\* JSONObject, the loop: end is the position after the key's opening quote.
ParsePairs(s, end, pairs) ==
    Apply(LAMBDA key :
        IF ~key.ok THEN key
        ELSE LET e2 == IF At(s, key.end) # ":" THEN SkipWs(s, key.end)
                       ELSE key.end
             IN
             IF At(s, e2) # ":" THEN Err("colon", e2)
             ELSE Apply(LAMBDA v :
                      IF ~v.ok THEN v
                      ELSE LET e4 == SkipWs(s, v.end)
                               nc == At(s, e4)
                           IN  Apply(LAMBDA more :
                                   IF nc = "}" THEN Ok(ObjVal(more), e4 + 1)
                                   ELSE IF nc # "," THEN Err("comma", e4)
                                   ELSE LET e5 == SkipWs(s, e4 + 1) IN
                                        IF At(s, e5) # Q
                                        THEN Err("property_name", e5)
                                        ELSE ParsePairs(s, e5 + 1, more),
                                 Put(pairs, key.val.s, v.val)),
                    ParseValue(s, SkipWs(s, e2 + 1))),
      ScanString(s, end - 1, end, <<>>))

\* scan_once
ParseValue(s, idx) ==
    LET c == At(s, idx) IN
    IF c = Q THEN ScanString(s, idx, idx + 1, <<>>)
    ELSE IF c = "{" THEN ParseObject(s, idx + 1)
    ELSE IF c = "[" THEN ParseArray(s, idx + 1)
    ELSE IF c \in {"true", "false"} THEN Ok(LitVal(c), idx + 1)
    ELSE IF c \in Digits THEN ScanNumber(s, idx, <<>>)
    ELSE Err("value", idx)

\* json.loads
json_loads(s) ==
    Apply(LAMBDA r :
        IF ~r.ok THEN r
        ELSE LET e == SkipWs(s, r.end) IN
             IF e # Len(s) THEN Err("extra_data", e) ELSE r,
      ParseValue(s, SkipWs(s, 0)))

\* json.dumps with its default separators.
DumpChar(c) ==
    CASE c = Q -> <<BS, Q>>
      [] c = BS -> <<BS, BS>>
      [] c = NL -> <<BS, "n">>
      [] c = "<TAB>rue" -> <<BS, "true">>
      [] c = "<FF>alse" -> <<BS, "false">>
      [] c = "<CR>easoning" -> <<BS, "reasoning">>
      [] c = "<CR>elevance" -> <<BS, "relevance">>
      [] c = "<CR>egulatory_changes" -> <<BS, "regulatory_changes">>
      [] c = "<TAB>echnological_developments" -> <<BS, "technological_developments">>
      [] c = "e_acute" -> <<BS, "u00e9">>
      [] OTHER -> <<c>>
RECURSIVE DumpChars(_)
DumpChars(chars) ==
    IF chars = <<>> THEN <<>> ELSE DumpChar(Head(chars)) \o DumpChars(Tail(chars))
DumpString(chars) == <<Q>> \o DumpChars(chars) \o <<Q>>

RECURSIVE json_dumps(_)
RECURSIVE DumpMembers(_, _)
DumpMembers(kv, keyed) ==
    IF kv = <<>> THEN <<>>
    ELSE (IF keyed THEN DumpString(Head(kv).k) \o <<":", SP>> ELSE <<>>)
         \o json_dumps(Head(kv).v)
         \o (IF Len(kv) > 1 THEN <<",", SP>> ELSE <<>>)
         \o DumpMembers(Tail(kv), keyed)
json_dumps(v) ==
    CASE v.t = "obj" -> <<"{">> \o DumpMembers(v.kv, TRUE) \o <<"}">>
      [] v.t = "arr" -> <<"[">> \o DumpMembers(v.kv, FALSE) \o <<"]">>
      [] v.t = "str" -> DumpString(v.s)
      [] v.t = "num" -> v.s
      [] v.t = "none" -> <<"null">>
      [] OTHER -> <<v.t>>

\* parse_analysis_safely, "Fix missing commas".
FixMissingCommas(s) ==
    Apply(LAMBDA t : Replace(t, <<Q, SP, Q>>, <<Q, ",", SP, Q>>),
          Replace(s, <<"}", SP, "{">>, <<"}", ",", SP, "{">>))

\* parse_analysis_safely, "Fix unterminated strings": pos is e.pos.
FixUnterminated(s, pos) ==
    IF pos > 0 /\ At(s, pos - 1) = ":"
    THEN SubSeq(s, 1, pos) \o <<Q>> \o SubSeq(s, pos + 1, Len(s)) \o <<Q>>
    ELSE s

\* str.split('"'): the parts between the quotes, one more than the quotes.
QuotesOf(s) == {j \in 1..Len(s) : s[j] = Q}
Nth(P, k) == CHOOSE p \in P : Cardinality({q \in P : q < p}) = k - 1
SplitOnQuote(s) ==
    LET P == QuotesOf(s)
        n == Cardinality(P)
    IN  [k \in 1..(n + 1) |->
            SubSeq(s, IF k = 1 THEN 1 ELSE Nth(P, k - 1) + 1,
                      IF k = n + 1 THEN Len(s) ELSE Nth(P, k) - 1)]
\* '"'.join(parts)
RECURSIVE JoinWithQuote(_)
JoinWithQuote(parts) ==
    IF Len(parts) = 1 THEN parts[1]
    ELSE LET h == Len(parts) \div 2 IN
         Apply(JoinWithQuote, SubSeq(parts, 1, h)) \o <<Q>>
             \o Apply(JoinWithQuote, SubSeq(parts, h + 1, Len(parts)))

\* parse_analysis_safely, "Fix missing colons": parts[i+1] for the odd i of
\* the loop are, counted from 1, the parts 3, 5, ...
FixMissingColons(s) ==
    Apply(LAMBDA parts :
        Apply(JoinWithQuote,
              [j \in 1..Len(parts) |->
                  IF j >= 3 /\ j % 2 = 1 /\ ~StartsWith(Strip(parts[j]), <<":">>)
                  THEN <<":">> \o parts[j]
                  ELSE parts[j]]),
      SplitOnQuote(s))

\* The rewrites the second attempt applies for the error the first parse
\* reported: each "if ... in str(e)" matches its own message only.
RewritesFor_all(class) == {"comma", "unterminated", "colon"}
RewritesFor(class) == {class} \cap {"comma", "unterminated", "colon"}

StructuralRepair(s, e) ==
    LET s1 == IF "comma" \in RewritesFor(e.err) THEN FixMissingCommas(s) ELSE s
        s2 == IF "unterminated" \in RewritesFor(e.err)
              THEN FixUnterminated(s1, e.pos) ELSE s1
        s3 == IF "colon" \in RewritesFor(e.err) THEN FixMissingColons(s2) ELSE s2
    IN  s3

NoError == [ok |-> TRUE, val |-> NoneVal, end |-> 0, err |-> "none", pos |-> 0]
NoContent == [is_str |-> TRUE, text |-> <<>>]
NoAnalysis == [kind |-> "missing", text |-> <<>>, obj |-> NoneVal]

\* The local state of parse_analysis_safely before its first statement.
RepairLocalsFresh ==
    /\ r_content = NoContent
    /\ r_candidate = <<>>
    /\ r_text = <<>>
    /\ r_error = NoError
    /\ r_before = <<>>
    /\ r_rewrites = {}
    /\ r_parses = 0
    /\ r_result = NoneVal
    /\ r_caught = "none"

\* parse_analysis_safely is not being called.
RepairOff ==
    /\ r_pc = "off"
    /\ r_analysis = NoAnalysis
    /\ r_round = 1
    /\ r_first = NoneVal
    /\ RepairLocalsFresh

\* create_consolidated_prompt is not being called.
BuilderOff ==
    /\ b_pc = "off"
    /\ b_input = <<>>
    /\ b_details = <<>>
    /\ b_calls = <<>>
    /\ b_equal = <<>>

\* categorize_markets is not being called.
CategorizeOff ==
    /\ c_pc = "off"
    /\ c_categories = <<>>

\* parse_markets is not being called.
LoaderOff ==
    /\ l_pc = "off"
    /\ l_loader = "clean"
    /\ l_file = <<>>
    /\ l_content = <<>>
    /\ l_parses = 0
    /\ l_repairs = 0
    /\ l_raw_data = NoneVal
    /\ l_error = "none"

\* build_domain_context is not being called.
NoContext == [status |-> "none", market_count |-> 0, markets |-> <<>>]
AggregatorOff ==
    /\ a_pc = "off"
    /\ a_data = <<>>
    /\ a_domain = "economic"
    /\ a_next = 1
    /\ a_domain_markets = <<>>
    /\ a_context = NoContext
    /\ a_round = 1
    /\ a_first = NoContext

\* The detail lists of the records of the input document: a price ladder
\* that is not in ascending order, a detail without question.
DetailLists ==
    { <<Detail(1, ReachHigh, <<70, 30>>), Detail(2, ReachLow, <<70, 30>>)>>,
      <<Detail(1, MissingKey, <<70, 30>>)>> }

Record(id, details) ==
    [id |-> id,
     preparable |-> ~create_consolidated_prompt(details).raised,
     markets_detail |-> details]

Init ==
    /\ \E n \in 0..MaxMarkets :
         \E d \in [1..n -> DetailLists] :
            data = [k \in 1..n |-> Record(k, d[k])]
    /\ batch_size \in 1..MaxBatchSize
    /\ api_key \in BOOLEAN
    /\ pc = "loop"
    /\ i = 0
    /\ batch_number = 0
    /\ batch = <<>>
    /\ market_contents = <<>>
    /\ market_details = <<>>
    /\ tasks = <<>>
    /\ analysis_results = <<>>
    /\ batch_results = <<>>
    /\ results = <<>>
    /\ checkpoints = <<>>
    /\ final_file = <<>>
    /\ sessions = <<>>
    /\ error = "none"
    /\ issued = [k \in 1..Len(data) |-> 0]
    /\ issued_on = [k \in 1..Len(data) |-> "none"]
    /\ responses = [k \in 1..Len(data) |-> "none"]
    /\ batch_log = <<>>
    /\ delays = 0
    /\ completed = <<>>
    /\ RepairOff
    /\ CategorizeOff
    /\ AggregatorOff
    /\ BuilderOff
    /\ LoaderOff

\* The loop head of validate_and_analyze_markets and process_batch up to the
\* construction of the client: slice the batch, prepare its records.
PrepareBatch ==
    /\ UNCHANGED <<pure_vars, delays>>
    /\ completed' = <<>>
    /\ pc = "loop"
    /\ i < Len(data)
    /\ LET b == BatchSlice(data, i, batch_size) IN
         /\ data' = [k \in 1..Len(data) |->
                        IF \E t \in 1..Len(b) : b[t].id = k
                        THEN [data[k] EXCEPT !.markets_detail =
                                  create_consolidated_prompt(@).details]
                        ELSE data[k]]
         /\ batch' = [t \in 1..Len(b) |-> data'[b[t].id]]
         /\ market_contents' = PromptsOf(b)
         /\ market_details' = DetailsOf(b)
         /\ batch_log' = Append(batch_log, [t \in 1..Len(b) |-> b[t].id])
    /\ batch_number' = (i \div batch_size) + 1
    /\ batch_results' = <<>>
    /\ tasks' = <<>>
    /\ analysis_results' = <<>>
    /\ pc' = "client"
    /\ UNCHANGED <<batch_size, api_key, i, results, checkpoints, final_file,
                   sessions, error, issued, issued_on, responses>>

\* OpenRouterClient() and __aenter__: the credential is present, a session
\* is created.
ClientEnter ==
    /\ UNCHANGED <<pure_vars, delays, completed>>
    /\ pc = "client"
    /\ api_key
    /\ sessions' = Append(sessions, "open")
    /\ pc' = "dispatch"
    /\ UNCHANGED <<data, batch_size, api_key, i, batch_number, batch,
                   market_contents, market_details, tasks, analysis_results,
                   batch_results, results, checkpoints, final_file, error,
                   issued, issued_on, responses, batch_log>>

\* OpenRouterClient() raises ValueError: nothing catches it before main, which
\* logs it and re-raises.
ClientInitRaises ==
    /\ UNCHANGED <<pure_vars, delays, completed>>
    /\ pc = "client"
    /\ ~api_key
    /\ error' = "config"
    /\ pc' = "aborted"
    /\ UNCHANGED <<data, batch_size, api_key, i, batch_number, batch,
                   market_contents, market_details, tasks, analysis_results,
                   batch_results, results, checkpoints, final_file, sessions,
                   issued, issued_on, responses, batch_log>>

SessionState == IF Len(sessions) = 0 THEN "none" ELSE sessions[Len(sessions)]

\* analyze_markets_batch: one analyze_market task per prompt, all started
\* before any of them is awaited.
Dispatch ==
    /\ UNCHANGED <<pure_vars, delays, completed>>
    /\ pc = "dispatch"
    /\ tasks' = [t \in 1..Len(market_contents) |->
                    PendingTask(market_contents[t].prompt_of)]
    /\ LET sent == {market_contents[t].prompt_of : t \in 1..Len(market_contents)} IN
         /\ issued' = [k \in Ids |-> IF k \in sent THEN batch_number ELSE issued[k]]
         /\ issued_on' = [k \in Ids |-> IF k \in sent THEN SessionState
                                         ELSE issued_on[k]]
    /\ pc' = "inflight"
    /\ UNCHANGED <<data, batch_size, api_key, i, batch_number, batch,
                   market_contents, market_details, analysis_results,
                   batch_results, results, checkpoints, final_file, sessions,
                   error, responses, batch_log>>

\* One request of the batch ends, in any order. With return_exceptions the
\* exception is kept as the task's result; without it gather would re-raise
\* it out of the async with block and up to main.
RequestCompletes ==
    /\ UNCHANGED <<pure_vars, delays>>
    /\ pc = "inflight"
    /\ \E t \in 1..Len(tasks) : \E kind \in ResponseKinds :
         /\ tasks[t].state = "pending"
         /\ tasks' = [tasks EXCEPT ![t] = analyze_market(tasks[t].for, kind)]
         /\ responses' = [responses EXCEPT ![tasks[t].for] = kind]
         /\ completed' = Append(completed, tasks[t].for)
         /\ IF kind \in RaisingKinds /\ ~return_exceptions
            THEN /\ sessions' = aexit(sessions)
                 /\ error' = "transport"
                 /\ pc' = "aborted"
            ELSE UNCHANGED <<sessions, error, pc>>
    /\ UNCHANGED <<data, batch_size, api_key, i, batch_number, batch,
                   market_contents, market_details, analysis_results,
                   batch_results, results, checkpoints, final_file, issued,
                   issued_on, batch_log>>

\* The task running main is cancelled while it awaits gather (asyncio.run on
\* an interrupt): CancelledError leaves the async with block through
\* __aexit__ and is not caught by main's "except Exception".
Cancelled ==
    /\ UNCHANGED <<pure_vars, delays, completed>>
    /\ pc = "inflight"
    /\ sessions' = aexit(sessions)
    /\ error' = "cancelled"
    /\ pc' = "aborted"
    /\ UNCHANGED <<data, batch_size, api_key, i, batch_number, batch,
                   market_contents, market_details, tasks, analysis_results,
                   batch_results, results, checkpoints, final_file, issued,
                   issued_on, responses, batch_log>>

\* gather returns once every task is done; the results are combined with the
\* details, in task order.
CombineResults_first_completed ==
    /\ UNCHANGED <<pure_vars, delays, completed>>
    /\ pc = "inflight"
    /\ \E t \in 1..Len(tasks) : tasks[t].state = "done"
    /\ analysis_results' = tasks
    /\ batch_results' = Combine(market_details, tasks)
    /\ pc' = "exit"
    /\ UNCHANGED <<data, batch_size, api_key, i, batch_number, batch,
                   market_contents, market_details, tasks, results, checkpoints,
                   final_file, sessions, error, issued, issued_on, responses,
                   batch_log>>
CombineResults ==
    /\ UNCHANGED <<pure_vars, delays, completed>>
    /\ pc = "inflight"
    /\ \A t \in 1..Len(tasks) : tasks[t].state = "done"
    /\ analysis_results' = tasks
    /\ batch_results' = Combine(market_details, tasks)
    /\ pc' = "exit"
    /\ UNCHANGED <<data, batch_size, api_key, i, batch_number, batch,
                   market_contents, market_details, tasks, results, checkpoints,
                   final_file, sessions, error, issued, issued_on, responses,
                   batch_log>>

\* The async with block is left, process_batch returns and the caller
\* extends the accumulated results.
ExitAndExtend ==
    /\ UNCHANGED <<pure_vars, delays, completed>>
    /\ pc = "exit"
    /\ sessions' = aexit(sessions)
    /\ results' = extend(results, batch_results)
    /\ pc' = "save"
    /\ UNCHANGED <<data, batch_size, api_key, i, batch_number, batch,
                   market_contents, market_details, tasks, analysis_results,
                   batch_results, checkpoints, final_file, error, issued,
                   issued_on, responses, batch_log>>

\* save_results writes market_analysis_<time>_batch_<n>.json, a new file for
\* every batch; the loop goes on to the next i.
SaveResults_skips ==
    /\ UNCHANGED <<pure_vars, delays, completed>>
    /\ pc = "save"
    /\ i' = i + batch_size
    /\ pc' = "loop"
    /\ UNCHANGED <<data, batch_size, api_key, batch_number, batch, market_contents,
                   market_details, tasks, analysis_results, batch_results,
                   results, checkpoints, final_file, sessions, error, issued,
                   issued_on, responses, batch_log>>
SaveResults_batch_only ==
    /\ UNCHANGED <<pure_vars, delays, completed>>
    /\ pc = "save"
    /\ checkpoints' = Append(checkpoints,
                             [batch_number |-> batch_number,
                              document |-> Document(batch_results)])
    /\ i' = i + batch_size
    /\ pc' = "loop"
    /\ UNCHANGED <<data, batch_size, api_key, batch_number, batch, market_contents,
                   market_details, tasks, analysis_results, batch_results,
                   results, final_file, sessions, error, issued, issued_on,
                   responses, batch_log>>
SaveResults ==
    /\ UNCHANGED <<pure_vars, delays, completed>>
    /\ pc = "save"
    /\ checkpoints' = Append(checkpoints,
                             [batch_number |-> batch_number,
                              document |-> Document(results)])
    /\ i' = i + batch_size
    /\ pc' = "loop"
    /\ UNCHANGED <<data, batch_size, api_key, batch_number, batch, market_contents,
                   market_details, tasks, analysis_results, batch_results,
                   results, final_file, sessions, error, issued, issued_on,
                   responses, batch_log>>

\* open() or json.dump raises in save_results: nothing catches it before
\* main, which logs it and re-raises.
SaveResultsRaises_swallowed ==
    /\ UNCHANGED <<pure_vars, delays, completed>>
    /\ pc = "save"
    /\ error' = "persist"
    /\ i' = i + batch_size
    /\ pc' = "loop"
    /\ UNCHANGED <<data, batch_size, api_key, batch_number, batch, market_contents,
                   market_details, tasks, analysis_results, batch_results,
                   results, checkpoints, final_file, sessions, issued,
                   issued_on, responses, batch_log>>
SaveResultsRaises ==
    /\ UNCHANGED <<pure_vars, delays, completed>>
    /\ pc = "save"
    /\ error' = "persist"
    /\ pc' = "aborted"
    /\ UNCHANGED <<data, batch_size, api_key, i, batch_number, batch,
                   market_contents, market_details, tasks, analysis_results,
                   batch_results, results, checkpoints, final_file, sessions,
                   issued, issued_on, responses, batch_log>>

\* The loop is over: main writes market_analysis_final_<time>.json.
FinalSave_last_batch ==
    /\ UNCHANGED <<pure_vars, delays, completed>>
    /\ pc = "loop"
    /\ i >= Len(data)
    /\ final_file' = <<Document(batch_results)>>
    /\ pc' = "done"
    /\ UNCHANGED <<data, batch_size, api_key, i, batch_number, batch,
                   market_contents, market_details, tasks, analysis_results,
                   batch_results, results, checkpoints, sessions, error, issued,
                   issued_on, responses, batch_log>>
FinalSave ==
    /\ UNCHANGED <<pure_vars, delays, completed>>
    /\ pc = "loop"
    /\ i >= Len(data)
    /\ final_file' = <<Document(results)>>
    /\ pc' = "done"
    /\ UNCHANGED <<data, batch_size, api_key, i, batch_number, batch,
                   market_contents, market_details, tasks, analysis_results,
                   batch_results, results, checkpoints, sessions, error, issued,
                   issued_on, responses, batch_log>>

\* Writing the final file raises: main logs it and re-raises.
FinalSaveRaises ==
    /\ UNCHANGED <<pure_vars, delays, completed>>
    /\ pc = "loop"
    /\ i >= Len(data)
    /\ error' = "final_persist"
    /\ pc' = "aborted"
    /\ UNCHANGED <<data, batch_size, api_key, i, batch_number, batch,
                   market_contents, market_details, tasks, analysis_results,
                   batch_results, results, checkpoints, final_file, sessions,
                   issued, issued_on, responses, batch_log>>

Next ==
    \/ PrepareBatch
    \/ ClientEnter
    \/ ClientInitRaises
    \/ Dispatch
    \/ RequestCompletes
    \/ Cancelled
    \/ CombineResults
    \/ ExitAndExtend
    \/ SaveResults
    \/ SaveResultsRaises
    \/ FinalSave
    \/ FinalSaveRaises

Spec == Init /\ [][Next]_vars

\* The event loop keeps running the one coroutine of main, and every request
\* that is in flight eventually completes or fails: some enabled step is
\* eventually taken.
FairSpec == Spec /\ WF_vars(Next)

(***************************************************************************)
(* parse_analysis_safely (src/synth.py): the analyses it is called on.     *)
(* A text is a sequence of symbols; a symbol is one character or a run of  *)
(* characters that no step of the code splits.                             *)
(***************************************************************************)

\* The longest arbitrary text drawn over Alphabet.
MaxTextLen == 3

Alphabet == {"{", "}", Q, ":", ",", "9", SP, "true"}

Key(k) == <<Q, k, Q>>
Str(chars) == <<Q>> \o chars \o <<Q>>
Member(k, v) == Key(k) \o <<":", SP>> \o v
Braces(members) == <<"{">> \o members \o <<"}">>
Comma == <<",", SP>>

\* One domain sub-object, its reasoning key and reasoning literal given.
Domain(relevance, reasoning_key, reasoning) ==
    Braces(Member("impact", <<"true">>) \o Comma
           \o Member("relevance", <<relevance>>) \o Comma
           \o reasoning_key \o <<":", SP>> \o reasoning)

CPILink == Str(<<"CPI", SP, "link">>)
Plain == Braces(Member("impact", <<"true">>) \o Comma \o Member("relevance", <<"6">>))

\* A four-domain assessment around the given first domain, closed by closing.
Assessment(first, closing) ==
    <<"{">> \o Member(DomainKeys[1], first) \o Comma
            \o Member(DomainKeys[2], Plain) \o Comma
            \o Member(DomainKeys[3], Plain) \o Comma
            \o Member(DomainKeys[4], Plain) \o closing

Economic(reasoning) == Domain("9", Key("reasoning"), reasoning)

WellFormed == Assessment(Economic(CPILink), <<"}">>)
MissingClosingBrace == Assessment(Economic(CPILink), <<>>)
ThreeDomains ==
    Braces(Member(DomainKeys[1], Economic(CPILink)) \o Comma
           \o Member(DomainKeys[2], Plain) \o Comma
           \o Member(DomainKeys[3], Plain))
DoubledQuotes ==
    Assessment(Domain("9", <<Q, Q, "reasoning", Q, Q>>, CPILink), <<"}">>)
TypoKey == Assessment(Domain("9", Key("reascoreoning"), CPILink), <<"}">>)
NewlineInValue == Assessment(Economic(Str(<<"CPI", NL, "link">>)), <<"}">>)
EscapedNewline == Assessment(Economic(Str(<<"CPI", BS, "n", "link">>)), <<"}">>)
NonAsciiValue == Assessment(Economic(Str(<<"CPI", SP, "e_acute">>)), <<"}">>)
EscapedQuote == Assessment(Economic(Str(<<"CPI", BS, BS, Q, "link">>)), <<"}">>)
EmptyString == Assessment(Economic(<<Q, Q, Q, Q>>), <<"}">>)
PrettyPrinted == Replace(WellFormed, Comma, <<",", NL, SP, SP>>)
MissingColon == Braces(Key("impact") \o <<SP, "true">>)
MissingCommaObjects == <<"[">> \o Plain \o <<SP>> \o Plain \o <<"]">>
MissingCommaStrings ==
    Braces(Member("reasoning", Str(<<"CPI">>)) \o <<SP>>
           \o Member("impact", <<"true">>))
UnterminatedString == <<"{">> \o Key("reasoning") \o <<":", Q, "CPI", "}">>
TrailingComma == Braces(Member("impact", <<"true">>) \o <<",">>)

Bodies ==
    { WellFormed, MissingClosingBrace, ThreeDomains, DoubledQuotes, TypoKey,
      NewlineInValue, EscapedNewline, NonAsciiValue, EscapedQuote, EmptyString,
      PrettyPrinted, MissingColon, MissingCommaObjects, MissingCommaStrings,
      UnterminatedString, TrailingComma,
      <<"{", "}">>, <<"9">>, <<"true">>, Str(<<"CPI">>), <<"CPI", SP, "link">> }

Prose == <<"CPI", SP, "link", ":">>
Fenced(body) == <<FenceJson, NL>> \o body \o <<NL, Fence>>

\* The ways a completion wraps its body.
Envelopes(body) ==
    { body,
      Fenced(body),
      Fenced(body) \o <<NL>>,
      Prose \o <<NL>> \o Fenced(body),
      Fenced(body) \o <<NL>> \o Prose,
      <<Fence, NL>> \o body \o <<NL, Fence>> }

RECURSIVE TextsOfLen(_)
TextsOfLen(n) ==
    IF n = 0 THEN {<<>>}
    ELSE {Append(t, c) : t \in TextsOfLen(n - 1), c \in Alphabet}

Texts ==
    (UNION {Envelopes(b) : b \in Bodies})
    \cup (UNION {TextsOfLen(n) : n \in 1..MaxTextLen})

Pair(k, v) == [k |-> <<k>>, v |-> v]
PlainObj == ObjVal(<<Pair("impact", LitVal("true")), Pair("relevance", NumVal(<<"6">>))>>)
FourDomainObj == ObjVal([j \in 1..4 |-> Pair(DomainKeys[j], PlainObj)])
ThreeDomainObj == ObjVal([j \in 1..3 |-> Pair(DomainKeys[j], PlainObj)])
NonAsciiObj == ObjVal(<<Pair("reasoning", StrVal(<<"CPI", "e_acute">>))>>)
\* All four domains; a reasoning that holds a newline, which the lexical
\* normalization would remove from the serialized object.
NewlineObj ==
    ObjVal(<<Pair("impact", LitVal("true")), Pair("relevance", NumVal(<<"6">>)),
             Pair("reasoning", StrVal(<<"CPI", NL, "link">>))>>)
FourDomainNewlineObj == ObjVal([j \in 1..4 |-> Pair(DomainKeys[j], NewlineObj)])

\* The values market.get('analysis') is drawn from.
Analyses ==
    {[kind |-> k, text |-> t, obj |-> NoneVal] :
        k \in {"str", "choices_content"}, t \in Texts}
    \cup {[kind |-> k, text |-> <<>>, obj |-> NoneVal] :
            k \in {"missing", "other", "choices_empty", "choices_no_message",
                   "choices_message_none", "choices_not_dict",
                   "choices_no_len", "choices_content_nonstr"}}
    \cup {[kind |-> "dict", text |-> <<>>, obj |-> o] :
            o \in {FourDomainObj, ThreeDomainObj, NonAsciiObj,
                   FourDomainNewlineObj, ObjVal(<<>>)}}
    \cup {[kind |-> "str", text |-> <<>>, obj |-> NoneVal]}

(***************************************************************************)
(* parse_analysis_safely (src/synth.py): one call, statement by statement. *)
(***************************************************************************)

\* The dispatcher is not running.
DispatcherOff ==
    /\ data = <<>>
    /\ batch_size = 1
    /\ api_key = FALSE
    /\ pc = "off"
    /\ i = 0
    /\ batch_number = 0
    /\ batch = <<>>
    /\ market_contents = <<>>
    /\ market_details = <<>>
    /\ tasks = <<>>
    /\ analysis_results = <<>>
    /\ batch_results = <<>>
    /\ results = <<>>
    /\ checkpoints = <<>>
    /\ final_file = <<>>
    /\ sessions = <<>>
    /\ error = "none"
    /\ issued = <<>>
    /\ issued_on = <<>>
    /\ responses = <<>>
    /\ batch_log = <<>>
    /\ delays = 0
    /\ completed = <<>>

RepairInit ==
    /\ DispatcherOff
    /\ CategorizeOff
    /\ BuilderOff
    /\ LoaderOff
    /\ r_pc = "call"
    /\ r_analysis \in Analyses
    /\ r_round = 1
    /\ r_first = NoneVal
    /\ RepairLocalsFresh
    /\ AggregatorOff

\* all(key in analysis for key in [the four domain keys])
HasAllDomainKeys(v) ==
    /\ v.t = "obj"
    /\ \A j \in 1..Len(DomainKeys) : HasKey(v.kv, <<DomainKeys[j]>>)

\* Lines 33-56: what the analysis gives.  way is "none" (return None),
\* "return" (return the analysis itself), "content" (go on with content) or
\* "raise" (an exception, exc, is raised).
Way(way, content, exc) == [way |-> way, content |-> content, exc |-> exc]
\* not market.get('analysis') (line 33): no key, None, "" or {}.
NoAnalysisGiven(analysis) ==
    \/ analysis.kind = "missing"
    \/ analysis.kind = "str" /\ analysis.text = <<>>
    \/ analysis.kind = "dict" /\ analysis.obj.kv = <<>>
GetContent_serializes_every_object(analysis) ==
    LET k == analysis.kind IN
    IF NoAnalysisGiven(analysis) THEN Way("none", NoContent, "none") ELSE
    CASE k = "str" -> Way("content", [is_str |-> TRUE, text |-> analysis.text], "none")
      [] k = "choices_content" ->
            IF analysis.text = <<>> THEN Way("none", NoContent, "none")
            ELSE Way("content", [is_str |-> TRUE, text |-> analysis.text], "none")
      [] k = "choices_content_nonstr" ->
            Way("content", [is_str |-> FALSE, text |-> <<>>], "none")
      [] k \in {"choices_empty", "choices_no_message", "other"} ->
            Way("none", NoContent, "none")
      [] k \in {"choices_message_none", "choices_not_dict"} ->
            Way("raise", NoContent, "AttributeError")
      [] k = "choices_no_len" -> Way("raise", NoContent, "TypeError")
      [] k = "dict" ->
            Way("content", [is_str |-> TRUE, text |-> json_dumps(analysis.obj)],
                "none")
GetContent(analysis) ==
    LET k == analysis.kind IN
    IF NoAnalysisGiven(analysis) THEN Way("none", NoContent, "none") ELSE
    CASE k = "str" -> Way("content", [is_str |-> TRUE, text |-> analysis.text], "none")
      [] k = "choices_content" ->
            IF analysis.text = <<>> THEN Way("none", NoContent, "none")
            ELSE Way("content", [is_str |-> TRUE, text |-> analysis.text], "none")
      [] k = "choices_content_nonstr" ->
            Way("content", [is_str |-> FALSE, text |-> <<>>], "none")
      [] k \in {"choices_empty", "choices_no_message", "other"} ->
            Way("none", NoContent, "none")
      [] k \in {"choices_message_none", "choices_not_dict"} ->
            Way("raise", NoContent, "AttributeError")
      [] k = "choices_no_len" -> Way("raise", NoContent, "TypeError")
      [] k = "dict" ->
            IF HasAllDomainKeys(analysis.obj) THEN Way("return", NoContent, "none")
            ELSE Way("content", [is_str |-> TRUE, text |-> json_dumps(analysis.obj)],
                     "none")

\* The handler of line 106 catches only JSONDecodeError.
OuterCatches_decode_errors_only(exc) == exc = "JSONDecodeError"
\* except Exception (line 106): every exception raised in the body is caught.
OuterCatches(exc) == TRUE

\* return value: the call ends with this value.
Return(value) ==
    /\ r_pc' = "returned"
    /\ r_result' = value

\* An exception raised in the outer try: caught and None returned, or it
\* leaves the function.
Raise(exc) ==
    IF OuterCatches(exc)
    THEN /\ r_pc' = "returned"
         /\ r_result' = NoneVal
         /\ r_caught' = exc
    ELSE /\ r_pc' = "raised"
         /\ r_result' = NoneVal
         /\ r_caught' = "none"

\* Lines 33-56.
RepairGetContent ==
    /\ r_pc = "call"
    /\ LET g == GetContent(r_analysis) IN
         IF g.way = "raise"
         THEN /\ Raise(g.exc)
              /\ UNCHANGED r_content
         ELSE /\ r_content' = g.content
              /\ r_caught' = r_caught
              /\ IF g.way = "none" THEN Return(NoneVal)
                 ELSE IF g.way = "return" THEN Return(r_analysis.obj)
                 ELSE /\ r_pc' = "content"
                      /\ r_result' = r_result
    /\ UNCHANGED <<outside_repair, r_analysis, r_candidate, r_text, r_error,
                   r_before, r_rewrites, r_parses, r_round, r_first>>

\* Lines 59-61.
RepairClean ==
    /\ r_pc = "content"
    /\ LET cleaned == clean_json_content(r_content) IN
         /\ r_candidate' = cleaned
         /\ r_text' = cleaned
         /\ IF cleaned = <<>> THEN Return(NoneVal)
            ELSE r_pc' = "cleaned" /\ r_result' = r_result
    /\ UNCHANGED <<outside_repair, r_analysis, r_content, r_error, r_before,
                   r_rewrites, r_parses, r_caught, r_round, r_first>>

\* Lines 64-73.
RepairNormalize ==
    /\ r_pc = "cleaned"
    /\ r_text' = Normalize(r_text)
    /\ r_pc' = "normalized"
    /\ UNCHANGED <<outside_repair, r_analysis, r_content, r_candidate, r_error,
                   r_before, r_rewrites, r_parses, r_result, r_caught, r_round,
                   r_first>>

\* Lines 75-78.
RepairFirstParse ==
    /\ r_pc = "normalized"
    /\ r_parses' = r_parses + 1
    /\ LET r == json_loads(r_text) IN
         IF r.ok THEN Return(r.val) /\ r_error' = r_error
         ELSE r_pc' = "failed" /\ r_error' = r /\ r_result' = r_result
    /\ UNCHANGED <<outside_repair, r_analysis, r_content, r_candidate, r_text,
                   r_before, r_rewrites, r_caught, r_round, r_first>>

\* Lines 80-99.
RepairRewrite ==
    /\ r_pc = "failed"
    /\ r_before' = r_text
    /\ r_rewrites' = RewritesFor(r_error.err)
    /\ r_text' = StructuralRepair(r_text, r_error)
    /\ r_pc' = "rewritten"
    /\ UNCHANGED <<outside_repair, r_analysis, r_content, r_candidate, r_error,
                   r_parses, r_result, r_caught, r_round, r_first>>

\* Lines 101-104.
RepairReparse ==
    /\ r_pc = "rewritten"
    /\ r_parses' = r_parses + 1
    /\ LET r == json_loads(r_text) IN
         IF r.ok THEN Return(r.val) ELSE Return(NoneVal)
    /\ UNCHANGED <<outside_repair, r_analysis, r_content, r_candidate, r_text,
                   r_error, r_before, r_rewrites, r_caught, r_round, r_first>>

\* The object a call returned is serialized (json.dumps), wrapped in a json
\* fence and handed to a second call.
Reserialize ==
    /\ r_pc = "returned"
    /\ r_round = 1
    /\ r_result.t = "obj"
    /\ r_first' = r_result
    /\ r_round' = 2
    /\ r_analysis' = [kind |-> "str", text |-> Fenced(json_dumps(r_result)),
                      obj |-> NoneVal]
    /\ r_pc' = "call"
    /\ r_content' = NoContent
    /\ r_candidate' = <<>>
    /\ r_text' = <<>>
    /\ r_error' = NoError
    /\ r_before' = <<>>
    /\ r_rewrites' = {}
    /\ r_parses' = 0
    /\ r_result' = NoneVal
    /\ r_caught' = "none"
    /\ UNCHANGED outside_repair

RepairNext ==
    \/ RepairGetContent
    \/ RepairClean
    \/ RepairNormalize
    \/ RepairFirstParse
    \/ RepairRewrite
    \/ RepairReparse
    \/ Reserialize

RepairSpec == RepairInit /\ [][RepairNext]_vars

\* A call that has started runs to its return: the interpreter takes every
\* statement that is next.
FairRepairSpec == RepairSpec /\ WF_vars(RepairNext)

(***************************************************************************)
(* build_domain_context (src/synth.py, the second definition, which is the *)
(* one bound to the name when the module has loaded), one call of it.      *)
(***************************************************************************)

\* The most markets in data['results'].
MaxAggMarkets == 3

\* parse_analysis_safely as one call: what the steps above return.
parse_analysis_safely(analysis) ==
    Apply(LAMBDA g :
        IF g.way \in {"none", "raise"} THEN NoneVal
        ELSE IF g.way = "return" THEN analysis.obj
        ELSE Apply(LAMBDA cleaned :
                 IF cleaned = <<>> THEN NoneVal
                 ELSE Apply(LAMBDA norm :
                          Apply(LAMBDA first :
                              IF first.ok THEN first.val
                              ELSE Apply(LAMBDA second :
                                       IF second.ok THEN second.val ELSE NoneVal,
                                     json_loads(StructuralRepair(norm, first))),
                            json_loads(norm)),
                        Normalize(cleaned)),
               clean_json_content(g.content)),
      GetContent(analysis))

domain_mapping ==
    [economic |-> "economic_indicators",
     geopolitical |-> "geopolitical_events",
     regulatory |-> "regulatory_changes",
     technological |-> "technological_developments"]

DigitValue(d) == CASE d = "9" -> 9 [] d = "6" -> 6 [] d = "5" -> 5 [] OTHER -> 0
RECURSIVE IntOf(_)
IntOf(digits) ==
    IF digits = <<>> THEN 0
    ELSE 10 * IntOf(SubSeq(digits, 1, Len(digits) - 1)) + DigitValue(digits[Len(digits)])

\* isinstance(v, (int, float)): a bool is an int.
IsNumber(v) == v.t \in {"num", "true", "false"}
NumberOf(v) == CASE v.t = "num" -> IntOf(v.s) [] v.t = "true" -> 1 [] OTHER -> 0

\* bool(v)
Truthy(v) ==
    CASE v.t = "none" -> FALSE
      [] v.t = "str" -> v.s # <<>>
      [] v.t = "num" -> IntOf(v.s) # 0
      [] v.t = "true" -> TRUE
      [] v.t = "false" -> FALSE
      [] OTHER -> v.kv # <<>>

\* Lines 360-372 for one market: "skip" (continue), "admit" with the
\* relevance, or an exception raised in the body of the loop.
Processed(admit, relevance) ==
    [admit |-> admit, relevance |-> relevance, exc |-> "none"]
RaisedInLoop(exc) == [admit |-> FALSE, relevance |-> 0, exc |-> exc]

\* The handler of line 382 catches only what process_market_volume catches.
LoopCatches_value_errors_only(exc) == exc \in {"ValueError", "TypeError"}
\* except Exception (line 382): the market is logged and skipped.
LoopCatches(exc) == TRUE

\* process_market_volume: 0.0 on ValueError and TypeError; .replace on a
\* number raises AttributeError, which leaves the function.
process_market_volume(market) ==
    LET v == market.total_volume IN
    CASE v.t = "none" -> [exc |-> "none", value |-> 0]
      [] v.t = "str" ->
            LET words == SelectSeq(v.s, LAMBDA w : w # "$") IN
            IF Len(words) = 1 /\ Float(words[1]).ok
            THEN [exc |-> "none", value |-> Float(words[1]).value]
            ELSE [exc |-> "none", value |-> 0]
      [] OTHER -> [exc |-> "AttributeError", value |-> 0]

\* get_market_details_safely: the ticker and the volume; on any exception
\* (line 147) the ticker and 0.0.
get_market_details_safely(market) ==
    LET volume == process_market_volume(market) IN
    IF volume.exc # "none"
    THEN [ticker |-> market.ticker, volume |-> 0]
    ELSE [ticker |-> market.ticker, volume |-> volume.value]
ProcessMarket_below_headline(market, domain_key) ==
    LET analysis_dict == parse_analysis_safely(market.analysis)
        domain_info == Get(analysis_dict, domain_key)
        impact == Get(domain_info, "impact")
        relevance == IF HasKey(domain_info.kv, <<"relevance">>)
                     THEN Get(domain_info, "relevance") ELSE NumVal(<<>>)
    IN  IF ~Truthy(analysis_dict) THEN Processed(FALSE, 0)
        ELSE IF analysis_dict.t # "obj" THEN RaisedInLoop("AttributeError")
        ELSE IF ~Truthy(domain_info) THEN Processed(FALSE, 0)
        ELSE IF domain_info.t # "obj" THEN RaisedInLoop("AttributeError")
        ELSE IF /\ Truthy(impact) /\ IsNumber(relevance)
                /\ NumberOf(relevance) >= 6 /\ NumberOf(relevance) < 9
             THEN Processed(TRUE, NumberOf(relevance))
             ELSE Processed(FALSE, 0)
ProcessMarket(market, domain_key) ==
    LET analysis_dict == parse_analysis_safely(market.analysis)
        domain_info == Get(analysis_dict, domain_key)
        impact == Get(domain_info, "impact")
        relevance == IF HasKey(domain_info.kv, <<"relevance">>)
                     THEN Get(domain_info, "relevance") ELSE NumVal(<<>>)
    IN  IF ~Truthy(analysis_dict) THEN Processed(FALSE, 0)
        \* .get on a list, a number, a str or a bool: AttributeError
        ELSE IF analysis_dict.t # "obj" THEN RaisedInLoop("AttributeError")
        ELSE IF ~Truthy(domain_info) THEN Processed(FALSE, 0)
        ELSE IF domain_info.t # "obj" THEN RaisedInLoop("AttributeError")
        ELSE IF Truthy(impact) /\ IsNumber(relevance) /\ NumberOf(relevance) >= 6
             THEN Processed(TRUE, NumberOf(relevance))
             ELSE Processed(FALSE, 0)

\* sorted(domain_markets, key=relevance_score, reverse=True): the entry at
\* position p goes behind the entries with a higher score and behind the
\* entries of equal score that stand before it (the sort is stable, also
\* with reverse=True).
Sorted_ties_reversed(domain_markets) ==
    LET n == Len(domain_markets)
        Before(p) == {q \in 1..n :
                        \/ domain_markets[q].relevance_score
                              > domain_markets[p].relevance_score
                        \/ /\ domain_markets[q].relevance_score
                                 = domain_markets[p].relevance_score
                           /\ q > p}
    IN  [r \in 1..n |->
            domain_markets[CHOOSE p \in 1..n : Cardinality(Before(p)) = r - 1]]
Sorted(domain_markets) ==
    LET n == Len(domain_markets)
        Before(p) == {q \in 1..n :
                        \/ domain_markets[q].relevance_score
                              > domain_markets[p].relevance_score
                        \/ /\ domain_markets[q].relevance_score
                                 = domain_markets[p].relevance_score
                           /\ q < p}
    IN  [r \in 1..n |->
            domain_markets[CHOOSE p \in 1..n : Cardinality(Before(p)) = r - 1]]

\* create_empty_context: the message names the domain.  The context of a
\* known domain (lines 386-392) has no 'error' key.
create_empty_context_success(domain) ==
    [status |-> "success", market_count |-> 0, markets |-> <<>>]
create_empty_context(domain) ==
    [status |-> "error", market_count |-> 0, markets |-> <<>>,
     error |-> <<"Invalid domain or no data available for ", domain>>]

\* The analyses of the markets of data['results'].
Sub(impact, relevance) ==
    ObjVal(<<Pair("impact", impact), Pair("relevance", relevance)>>)
AllDomains(sub) == ObjVal([j \in 1..4 |-> Pair(DomainKeys[j], sub)])
Assessed(impact, relevance) ==
    [kind |-> "dict", text |-> <<>>, obj |-> AllDomains(Sub(impact, relevance))]
MarketAnalyses ==
    { Assessed(LitVal("true"), NumVal(<<"9">>)),
      Assessed(LitVal("true"), NumVal(<<"6">>)),
      Assessed(LitVal("true"), NumVal(<<"5">>)),
      Assessed(LitVal("false"), NumVal(<<"9">>)),
      Assessed(StrVal(<<"no">>), NumVal(<<"9">>)),
      Assessed(LitVal("true"), StrVal(<<"9">>)),
      NoAnalysis,
      [kind |-> "choices_content", text |-> Fenced(WellFormed), obj |-> NoneVal],
      [kind |-> "str", text |-> <<"9">>, obj |-> NoneVal] }

\* An entry of data['results']: the market named by its position, its
\* analysis and its 'total_volume'.
WellFormedVolume == StrVal(<<"$", "1,000">>)
Entry(ticker, analysis, total_volume) ==
    [ticker |-> ticker, analysis |-> analysis, total_volume |-> total_volume]

Domains == {"economic", "geopolitical"}
RequestedDomains == Domains \cup {"sports"}

\* The relevance scores of an analysis raised to at least floor, everything
\* else as it was: a score is the number a 'relevance' key holds (line 369),
\* in an assessment object or in the text of a completion.
Floors == {"6", "9"}
RaiseScore(v, floor) ==
    IF v.t = "num" /\ IntOf(v.s) < DigitValue(floor) THEN NumVal(<<floor>>) ELSE v
RaiseSub(sub, floor) ==
    IF sub.t # "obj" THEN sub
    ELSE ObjVal([j \in 1..Len(sub.kv) |->
                    IF sub.kv[j].k = <<"relevance">>
                    THEN [k |-> sub.kv[j].k, v |-> RaiseScore(sub.kv[j].v, floor)]
                    ELSE sub.kv[j]])
RaiseAssessment(obj, floor) ==
    IF obj.t # "obj" THEN obj
    ELSE ObjVal([j \in 1..Len(obj.kv) |->
                    [k |-> obj.kv[j].k, v |-> RaiseSub(obj.kv[j].v, floor)]])
RaiseText(text, floor) ==
    [j \in 1..Len(text) |->
        IF /\ j > 5
           /\ SubSeq(text, j - 5, j - 1) = Key("relevance") \o <<":", SP>>
           /\ text[j] \in Digits
           /\ DigitValue(text[j]) < DigitValue(floor)
        THEN floor ELSE text[j]]
RaiseRelevance(analysis, floor) ==
    [kind |-> analysis.kind,
     text |-> RaiseText(analysis.text, floor),
     obj |-> RaiseAssessment(analysis.obj, floor)]

(***************************************************************************)
(* build_domain_context: one call, statement by statement.                 *)
(***************************************************************************)

\* data['results']: the market named by its position (the ticker) and its
\* analysis.
AggregatorInit ==
    /\ DispatcherOff
    /\ CategorizeOff
    /\ RepairOff
    /\ BuilderOff
    /\ LoaderOff
    /\ a_pc = "call"
    /\ \E n \in 0..MaxAggMarkets :
         \E analyses \in [1..n -> MarketAnalyses] :
            a_data = [k \in 1..n |-> Entry(k, analyses[k], WellFormedVolume)]
    /\ a_domain \in RequestedDomains
    /\ a_next = 1
    /\ a_domain_markets = <<>>
    /\ a_context = NoContext
    /\ a_round = 1
    /\ a_first = NoContext

\* Lines 351-353.
AggInvalidDomain ==
    /\ a_pc = "call"
    /\ a_domain \notin DOMAIN domain_mapping
    /\ a_context' = create_empty_context(a_domain)
    /\ a_pc' = "done"
    /\ UNCHANGED <<outside_aggregator, a_data, a_domain, a_next,
                   a_domain_markets, a_round, a_first>>

\* Lines 355-356.
AggEnterLoop ==
    /\ a_pc = "call"
    /\ a_domain \in DOMAIN domain_mapping
    /\ a_pc' = "loop"
    /\ UNCHANGED <<outside_aggregator, a_data, a_domain, a_next,
                   a_domain_markets, a_context, a_round, a_first>>

\* Lines 358-384, one pass of the loop: an exception the handler of line 382
\* catches skips the market, another one leaves build_domain_context.
AggProcessMarket ==
    /\ a_pc = "loop"
    /\ a_next <= Len(a_data)
    /\ LET market == a_data[a_next]
           p == ProcessMarket(market, domain_mapping[a_domain])
           details == get_market_details_safely(market)
       IN  /\ a_domain_markets' =
                 IF p.admit
                 THEN Append(a_domain_markets,
                             [ticker |-> details.ticker,
                              relevance_score |-> p.relevance,
                              volume |-> details.volume])
                 ELSE a_domain_markets
           /\ a_pc' = IF p.exc # "none" /\ ~LoopCatches(p.exc)
                      THEN "raised" ELSE a_pc
    /\ a_next' = a_next + 1
    /\ UNCHANGED <<outside_aggregator, a_data, a_domain,
                   a_context, a_round, a_first>>

\* Lines 386-392.
AggReturn ==
    /\ a_pc = "loop"
    /\ a_next > Len(a_data)
    /\ a_context' = [status |-> "success",
                     market_count |-> Len(a_domain_markets),
                     markets |-> Sorted(a_domain_markets)]
    /\ a_pc' = "done"
    /\ UNCHANGED <<outside_aggregator, a_data, a_domain, a_next,
                   a_domain_markets, a_round, a_first>>

\* The caller (test_market_processing, line 478) calls build_domain_context
\* again, for the same domain, on the data in which the relevance scores of
\* some markets were raised.
AggCallAgain ==
    /\ a_pc = "done"
    /\ a_round = 1
    /\ \E floor \in Floors : \E K \in SUBSET (1..Len(a_data)) :
          a_data' = [k \in 1..Len(a_data) |->
                        IF k \in K
                        THEN [a_data[k] EXCEPT !.analysis =
                                  RaiseRelevance(@, floor)]
                        ELSE a_data[k]]
    /\ a_first' = a_context
    /\ a_round' = 2
    /\ a_pc' = "call"
    /\ a_next' = 1
    /\ a_domain_markets' = <<>>
    /\ a_context' = NoContext
    /\ UNCHANGED <<outside_aggregator, a_domain>>

AggregatorNext ==
    \/ AggInvalidDomain
    \/ AggEnterLoop
    \/ AggProcessMarket
    \/ AggReturn
    \/ AggCallAgain

AggregatorSpec == AggregatorInit /\ [][AggregatorNext]_vars

(***************************************************************************)
(* build_domain_context on entries that are defective: the analysis is     *)
(* missing, of a wrong type, a completion that does not parse, an          *)
(* assessment whose relevance is no number, a text that parses to a number; *)
(* or the volume is a number where a string is expected.                   *)
(***************************************************************************)

DefectiveAnalyses ==
    { NoAnalysis,
      [kind |-> "other", text |-> <<>>, obj |-> NoneVal],
      [kind |-> "choices_content", text |-> <<"{">>, obj |-> NoneVal],
      Assessed(LitVal("true"), StrVal(<<"9">>)),
      [kind |-> "str", text |-> <<"9">>, obj |-> NoneVal] }

SoundAnalyses ==
    { Assessed(LitVal("true"), NumVal(<<"9">>)),
      Assessed(LitVal("true"), NumVal(<<"6">>)) }

\* The analysis and the 'total_volume' of the entries.
EntryShapes ==
    {<<a, WellFormedVolume>> : a \in SoundAnalyses \cup DefectiveAnalyses}
    \cup {<<Assessed(LitVal("true"), NumVal(<<"9">>)), NumVal(<<"9">>)>>}

IsolationInit ==
    /\ DispatcherOff
    /\ CategorizeOff
    /\ RepairOff
    /\ BuilderOff
    /\ LoaderOff
    /\ a_pc = "call"
    /\ \E n \in 0..MaxAggMarkets :
         \E shapes \in [1..n -> EntryShapes] :
            a_data = [k \in 1..n |-> Entry(k, shapes[k][1], shapes[k][2])]
    /\ a_domain \in Domains
    /\ a_next = 1
    /\ a_domain_markets = <<>>
    /\ a_context = NoContext
    /\ a_round = 1
    /\ a_first = NoContext

\* The caller calls build_domain_context again, for the same domain, on the
\* data without one of its defective entries.
AggCallWithout ==
    /\ a_pc = "done"
    /\ a_round = 1
    /\ \E k \in 1..Len(a_data) :
         /\ a_data[k].analysis \in DefectiveAnalyses
         /\ a_data' = SubSeq(a_data, 1, k - 1) \o SubSeq(a_data, k + 1, Len(a_data))
    /\ a_first' = a_context
    /\ a_round' = 3
    /\ a_pc' = "call"
    /\ a_next' = 1
    /\ a_domain_markets' = <<>>
    /\ a_context' = NoContext
    /\ UNCHANGED <<outside_aggregator, a_domain>>

IsolationNext ==
    \/ AggEnterLoop
    \/ AggProcessMarket
    \/ AggReturn
    \/ AggCallWithout

IsolationSpec == IsolationInit /\ [][IsolationNext]_vars

(***************************************************************************)
(* The headline view (src/clean.py: parse_analysis, categorize_markets)    *)
(* and the domain view (src/synth.py: build_domain_context) of the same    *)
(* analyzed markets.                                                       *)
(***************************************************************************)

\* safe_float: the default for None and when float raises ValueError or
\* TypeError; float of a bool is 1.0 or 0.0, float of a str of digits its
\* number.
safe_float(value) ==
    CASE value.t = "none" -> 0
      [] value.t = "num" -> IntOf(value.s)
      [] value.t = "true" -> 1
      [] value.t = "false" -> 0
      [] value.t = "str" ->
            IF value.s # <<>> /\ \A j \in 1..Len(value.s) : value.s[j] \in Digits
            THEN IntOf(value.s) ELSE 0
      [] OTHER -> 0

\* extract_json_from_markdown: json.loads of the first fenced block tagged
\* as JSON; None when there is none and when json.loads raises.
extract_json_from_markdown(content) ==
    IF content = <<>> \/ ~HasFencedBlock(content) THEN NoneVal
    ELSE Apply(LAMBDA parsed : IF parsed.ok THEN parsed.val ELSE NoneVal,
               json_loads(FencedInterior(content)))

\* parse_analysis: the content of choices[0].message, when the analysis is
\* a dict that holds one; None in every other case (an exception inside is
\* caught).
parse_analysis(analysis) ==
    IF analysis.kind = "choices_content" /\ analysis.text # <<>>
    THEN extract_json_from_markdown(analysis.text)
    ELSE NoneVal

\* categorize_markets, lines 182-194 for one market and one category: the
\* market is skipped without analysis; .get on an analysis or a category
\* that is no dict raises AttributeError, which nothing catches.  The
\* analysis is the one parse_markets stored (lines 147-150).
Categorized(listed, relevance, exc) ==
    [listed |-> listed, relevance |-> relevance, exc |-> exc]
categorize_market(analysis, analysis_key) ==
    IF ~Truthy(analysis) THEN Categorized(FALSE, 0, "none")
    ELSE IF analysis.t # "obj" THEN Categorized(FALSE, 0, "AttributeError")
    ELSE IF ~HasKey(analysis.kv, <<analysis_key>>)
         THEN Categorized(FALSE, 0, "none")
    ELSE LET category_data == Get(analysis, analysis_key) IN
         IF category_data.t # "obj"
         THEN Categorized(FALSE, 0, "AttributeError")
         ELSE LET relevance ==
                      IF HasKey(category_data.kv, <<"relevance">>)
                      THEN safe_float(Get(category_data, "relevance"))
                      ELSE 0
              IN  Categorized(relevance >= 9, relevance, "none")

\* categories[category_name].append(market_summary), when the market is listed.
Listing(category, market, found) ==
    IF found.listed
    THEN Append(category, [ticker |-> market.ticker, relevance |-> found.relevance])
    ELSE category

\* categorize_markets from market k on: every market, every category, in
\* order; the first exception leaves the function.
RECURSIVE categorize_markets(_, _, _)
categorize_markets(markets, k, categories) ==
    IF k > Len(markets) THEN [exc |-> "none", categories |-> categories]
    ELSE Apply(LAMBDA analysis :
           Apply(LAMBDA found :
                   IF \E j \in 1..Len(DomainKeys) : found[j].exc # "none"
                   THEN [exc |-> "AttributeError", categories |-> categories]
                   ELSE categorize_markets(markets, k + 1,
                          <<Listing(categories[1], markets[k], found[1]),
                            Listing(categories[2], markets[k], found[2]),
                            Listing(categories[3], markets[k], found[3]),
                            Listing(categories[4], markets[k], found[4])>>),
                 <<categorize_market(analysis, DomainKeys[1]),
                   categorize_market(analysis, DomainKeys[2]),
                   categorize_market(analysis, DomainKeys[3]),
                   categorize_market(analysis, DomainKeys[4])>>),
           parse_analysis(markets[k].analysis))

\* A completion that holds a fenced assessment, the same for every domain.
SubText(impact, relevance) ==
    Braces(Member("impact", <<impact>>) \o Comma \o Member("relevance", relevance))
AssessmentText(sub) ==
    <<"{">> \o Member(DomainKeys[1], sub) \o Comma
            \o Member(DomainKeys[2], sub) \o Comma
            \o Member(DomainKeys[3], sub) \o Comma
            \o Member(DomainKeys[4], sub) \o <<"}">>
Completion(impact, relevance) ==
    [kind |-> "choices_content",
     text |-> Fenced(AssessmentText(SubText(impact, relevance))),
     obj |-> NoneVal]

\* The analyses of the markets both views are built from.
ViewAnalyses ==
    { Completion("true", <<"9">>),
      Completion("true", <<"6">>),
      Completion("false", <<"9">>),
      Completion("true", Str(<<"9">>)),
      Assessed(LitVal("true"), NumVal(<<"9">>)),
      [kind |-> "choices_content", text |-> Fenced(<<"9">>), obj |-> NoneVal] }

\* At most this many markets are given to the two views.
MaxViewMarkets == 2

ViewsInit ==
    /\ DispatcherOff
    /\ RepairOff
    /\ BuilderOff
    /\ LoaderOff
    /\ a_pc = "call"
    /\ \E n \in 0..MaxViewMarkets :
         \E analyses \in [1..n -> ViewAnalyses] :
            a_data = [k \in 1..n |-> Entry(k, analyses[k], WellFormedVolume)]
    /\ a_domain \in Domains
    /\ a_next = 1
    /\ a_domain_markets = <<>>
    /\ a_context = NoContext
    /\ a_round = 1
    /\ a_first = NoContext
    /\ c_pc = "call"
    /\ c_categories = <<>>

\* categorize_markets on the analyzed markets; an exception leaves no view.
CategorizeMarkets ==
    /\ c_pc = "call"
    /\ LET view == categorize_markets(a_data, 1, <<<<>>, <<>>, <<>>, <<>>>>)
       IN  IF view.exc # "none"
           THEN /\ c_pc' = "raised"
                /\ c_categories' = c_categories
           ELSE /\ c_pc' = "done"
                /\ c_categories' = view.categories
    /\ UNCHANGED <<outside_categorize>>

ViewsNext ==
    \/ AggEnterLoop
    \/ AggProcessMarket
    \/ AggReturn
    \/ CategorizeMarkets

ViewsSpec == ViewsInit /\ [][ViewsNext]_vars

(***************************************************************************)
(* create_consolidated_prompt (src/ifk/analyze.py): calls of it on one     *)
(* market record, as process_batch calls it (line 263), with the record's  *)
(* own list market.get('markets_detail', []) as details.                   *)
(***************************************************************************)

\* The most details of a record, the most calls on the same record.
MaxDetails == 2
MaxCalls == 2

\* What a call returned: the prompt, or that it raised.
Outcome(call) == [raised |-> call.raised, prompt |-> call.prompt]

BuilderInit ==
    /\ DispatcherOff
    /\ CategorizeOff
    /\ RepairOff
    /\ AggregatorOff
    /\ LoaderOff
    /\ b_pc = "on"
    /\ \E n \in 0..MaxDetails :
         \E q \in [1..n -> Questions] : \E p \in [1..n -> OutcomePrices] :
            b_input = [j \in 1..n |-> Detail(j, q[j], p[j])]
    /\ b_details = b_input
    /\ b_calls = <<>>
    /\ b_equal = <<>>

\* A call on the record: the list object is left as the call leaves it.
Build ==
    /\ b_pc = "on"
    /\ Len(b_calls) < MaxCalls
    /\ LET call == create_consolidated_prompt(b_details) IN
         /\ b_details' = call.details
         /\ b_calls' = Append(b_calls, Outcome(call))
    /\ UNCHANGED <<outside_builder, b_pc, b_input, b_equal>>

\* A call on another record that is equal to the record as it was loaded.
BuildOnEqual ==
    /\ b_pc = "on"
    /\ b_equal = <<>>
    /\ b_equal' = <<Outcome(create_consolidated_prompt(b_input))>>
    /\ UNCHANGED <<outside_builder, b_pc, b_input, b_details, b_calls>>

BuilderNext ==
    \/ Build
    \/ BuildOnEqual

BuilderSpec == BuilderInit /\ [][BuilderNext]_vars

(***************************************************************************)
(* parse_markets (src/clean.py and src/test2.py): loading the input        *)
(* document.  The text of the file is a sequence of symbols, as for the    *)
(* completions.                                                            *)
(***************************************************************************)

\* The longest arbitrary text drawn over DocAlphabet.
MaxDocLen == 3

\* The closing sequence both loaders look for.
ClosingSequence == <<"}", "]", "}">>

\* content.rfind('}]}'): the last 0-based position where it starts, -1 if none.
Starts(s) == {p \in 0..(Len(s) - 3) : SubSeq(s, p + 1, p + 3) = ClosingSequence}
rfind(s) ==
    IF Starts(s) = {} THEN -1
    ELSE CHOOSE p \in Starts(s) : \A q \in Starts(s) : q <= p

\* content[:last_complete + 3] + '}]}'
CloseAfterLast(s) == SubSeq(s, 1, rfind(s) + 3) \o ClosingSequence

\* clean_json_string (src/test2.py)
clean_json_string(json_str) ==
    IF json_str = <<>> THEN <<>>
    ELSE IF rfind(json_str) # -1 THEN CloseAfterLast(json_str)
    ELSE json_str

\* for result in raw_data.get('results', []): TypeError on a number or a bool.
Iterable(v) == v.t \in {"none", "arr", "str", "obj"}

\* The documents: one market with its details and its analysis.
DetailList == <<"[", "{", "}", "]">>
MarketDetails == Braces(Member("markets_detail", DetailList))
Market(analysis) ==
    Braces(Member("market_details", MarketDetails) \o Comma
           \o Member("analysis", analysis))
Doc(markets) == Braces(Member("results", <<"[">> \o markets \o <<"]">>))

\* json.dump without indent: the document ends with the closing sequence.
CompactDoc == Doc(Market(Str(<<"ok">>)))
\* json.dump(..., indent=2), as save_results writes it: no two closing
\* brackets are adjacent.
IndentedDoc ==
    <<"{", NL>> \o Member("results", <<"[", NL, "{", NL>>
        \o Member("market_details",
                  <<"{", NL>> \o Member("markets_detail",
                                        <<"[", NL, "{", NL, "}", NL, "]">>)
                  \o <<NL, "}">>)
        \o <<NL, "}", NL, "]">>) \o <<NL, "}">>
\* The file was cut inside the analysis of its second market.
TruncatedDoc ==
    <<"{">> \o Member("results", <<"[">> \o Market(Str(<<"ok">>)) \o Comma
        \o <<"{">> \o Member("market_details", MarketDetails) \o Comma
        \o Member("analysis", <<Q, "o">>))
\* A complete document followed by text that does not belong to it.
TrailingText == CompactDoc \o <<NL, "junk">>
\* The file was cut before any market was complete.
CutEarly == <<"{">> \o Member("results", <<"[", "{">>)
ListDoc == <<"[", "]">>

DocAlphabet == {"{", "}", "[", "]", "9"}
RECURSIVE DocTextsOfLen(_)
DocTextsOfLen(n) ==
    IF n = 0 THEN {<<>>}
    ELSE {Append(t, c) : t \in DocTextsOfLen(n - 1), c \in DocAlphabet}
Documents ==
    {CompactDoc, IndentedDoc, TruncatedDoc, TrailingText, CutEarly, ListDoc}
    \cup (UNION {DocTextsOfLen(n) : n \in 0..MaxDocLen})

Loaders == {"clean", "test2"}

(***************************************************************************)
(* parse_markets: one call, statement by statement.                        *)
(***************************************************************************)

LoaderInit ==
    /\ DispatcherOff
    /\ CategorizeOff
    /\ RepairOff
    /\ AggregatorOff
    /\ BuilderOff
    /\ l_pc = "call"
    /\ l_loader \in Loaders
    /\ l_file \in Documents
    /\ l_content = l_file
    /\ l_parses = 0
    /\ l_repairs = 0
    /\ l_raw_data = NoneVal
    /\ l_error = "none"

\* The call ends with the exception exc (clean.py: logged and re-raised by
\* the outer handler; test2.py: "" is returned, or the exception leaves).
LoadFails(exc) ==
    /\ l_pc' = "failed"
    /\ l_error' = exc

\* clean.py lines 84-86: raw_data = json.loads(content).
LoadParse ==
    /\ l_pc = "call"
    /\ l_loader = "clean"
    /\ l_parses' = l_parses + 1
    /\ LET first == json_loads(l_content) IN
         IF first.ok
         THEN /\ l_raw_data' = first.val
              /\ l_pc' = "structure"
         ELSE /\ l_raw_data' = l_raw_data
              /\ l_pc' = "repair"
    /\ UNCHANGED <<outside_loader, l_loader, l_file, l_content, l_repairs, l_error>>

\* clean.py lines 87-91: the closing sequence is there, the text is closed
\* after its last occurrence.
LoadRepair ==
    /\ l_pc = "repair"
    /\ rfind(l_content) # -1
    /\ l_content' = CloseAfterLast(l_content)
    /\ l_repairs' = l_repairs + 1
    /\ l_pc' = "reparse"
    /\ UNCHANGED <<outside_loader, l_loader, l_file, l_parses, l_raw_data, l_error>>

\* clean.py line 89 false: nothing binds raw_data, and line 94 raises
\* UnboundLocalError.
LoadNoClosingSequence ==
    /\ l_pc = "repair"
    /\ rfind(l_content) = -1
    /\ LoadFails("UnboundLocalError")
    /\ UNCHANGED <<outside_loader, l_loader, l_file, l_content, l_parses,
                   l_repairs, l_raw_data>>

\* clean.py line 92: raw_data = json.loads(content), inside the handler of
\* the first error: a second error leaves through the outer handler.
LoadReparse ==
    /\ l_pc = "reparse"
    /\ l_parses' = l_parses + 1
    /\ LET second == json_loads(l_content) IN
         IF second.ok
         THEN /\ l_raw_data' = second.val
              /\ l_pc' = "structure"
              /\ l_error' = l_error
         ELSE /\ l_raw_data' = l_raw_data
              /\ LoadFails("JSONDecodeError")
    /\ UNCHANGED <<outside_loader, l_loader, l_file, l_content, l_repairs>>

\* clean.py lines 94-158: raw_data.get raises AttributeError unless raw_data
\* is a dict, the loop raises TypeError on results that cannot be iterated;
\* an error inside one result is caught there.
LoadStructure ==
    /\ l_pc = "structure"
    /\ IF l_raw_data.t # "obj" THEN LoadFails("AttributeError")
       ELSE IF HasKey(l_raw_data.kv, <<"results">>)
               /\ ~Iterable(Get(l_raw_data, "results"))
            THEN LoadFails("TypeError")
       ELSE /\ l_pc' = "loaded"
            /\ l_error' = l_error
    /\ UNCHANGED <<outside_loader, l_loader, l_file, l_content, l_parses,
                   l_repairs, l_raw_data>>

\* test2.py lines 42-45: clean_content = clean_json_string(content), applied
\* before any parse; "" is returned for an empty text.
LoadCleanFirst ==
    /\ l_pc = "call"
    /\ l_loader = "test2"
    /\ l_content' = clean_json_string(l_content)
    /\ l_repairs' = IF clean_json_string(l_content) # l_content
                    THEN l_repairs + 1 ELSE l_repairs
    /\ IF clean_json_string(l_content) = <<>>
       THEN LoadFails("empty")
       ELSE /\ l_pc' = "parse"
            /\ l_error' = l_error
    /\ UNCHANGED <<outside_loader, l_loader, l_file, l_parses, l_raw_data>>

\* test2.py lines 47-52: data = json.loads(clean_content); "" is returned on
\* JSONDecodeError; data.keys() raises AttributeError unless data is a dict.
LoadParseOnce ==
    /\ l_pc = "parse"
    /\ l_parses' = l_parses + 1
    /\ LET only == json_loads(l_content) IN
         IF ~only.ok
         THEN /\ l_raw_data' = l_raw_data
              /\ LoadFails("JSONDecodeError")
         ELSE IF only.val.t # "obj"
         THEN /\ l_raw_data' = only.val
              /\ LoadFails("AttributeError")
         ELSE /\ l_raw_data' = only.val
              /\ l_pc' = "loaded"
              /\ l_error' = l_error
    /\ UNCHANGED <<outside_loader, l_loader, l_file, l_content, l_repairs>>

LoaderNext ==
    \/ LoadParse
    \/ LoadRepair
    \/ LoadNoClosingSequence
    \/ LoadReparse
    \/ LoadStructure
    \/ LoadCleanFirst
    \/ LoadParseOnce

LoaderSpec == LoaderInit /\ [][LoaderNext]_vars




(***************************************************************************)
(* Vocabulary of the properties.                                           *)
(***************************************************************************)

\* The batch the slicing of the run puts input position k in.
BatchOf(k) == ((k - 1) \div batch_size) + 1

\* The batch whose iteration is running, or would run next.
CurrentBatch == (i \div batch_size) + 1

Succeeded(k) == responses[k] \in ResponseKinds \ RaisingKinds
Failed(k) == responses[k] \in RaisingKinds

EntryIds(res) == {res[j].market_details.ticker : j \in 1..Len(res)}

IsPrefix(s, t) == Len(s) <= Len(t) /\ SubSeq(t, 1, Len(s)) = s

LastPersisted ==
    IF checkpoints = <<>> THEN <<>>
    ELSE checkpoints[Len(checkpoints)].document.results

OpenSessions == {s \in 1..Len(sessions) : sessions[s] = "open"}

TypeOK ==
    /\ pc \in {"loop", "client", "dispatch", "inflight", "exit", "save", "done",
               "aborted"}
    /\ error \in {"none", "config", "transport", "cancelled", "persist",
                  "final_persist"}
    /\ i \in 0..(Len(data) + batch_size)
    /\ Len(market_contents) = Len(market_details)
    /\ \A k \in Ids : issued[k] \in 0..batch_number

(***************************************************************************)
(* C1  Partial-failure isolation.                                          *)
(***************************************************************************)

\* C1: when the run has returned and the remote call of exactly one record k
\* failed while every other record's call succeeded, the returned sequence
\* holds N-1 successful entries and one failure-marked entry for k that
\* carries the failure reason.
C1_FailedRecordIsMarked ==
    (pc = "done" /\ Len(data) > 0) =>
        \A k \in Ids :
            (Failed(k) /\ \A j \in Ids \ {k} : Succeeded(j)) =>
                /\ Cardinality({j \in 1..Len(results) : ~results[j].analysis.exc})
                       = Len(data) - 1
                /\ \E j \in 1..Len(results) :
                       /\ results[j].market_details.ticker = k
                       /\ results[j].analysis.exc
                       /\ results[j].analysis.value = responses[k]

(***************************************************************************)
(* C2  Checkpoint length.                                                  *)
(***************************************************************************)

\* C2: the checkpoint persisted for batch b holds as many entries as there
\* are records processed (succeeded or failed) in batches 1..b, and
\* checkpoint lengths never decrease.
C2_CheckpointLength ==
    \A b \in 1..Len(checkpoints) :
        /\ Len(checkpoints[b].document.results)
               = Cardinality({k \in Ids : issued[k] \in 1..b})
        /\ b > 1 => Len(checkpoints[b - 1].document.results)
                        <= Len(checkpoints[b].document.results)

(***************************************************************************)
(* C3  Crash-recovery bound.                                               *)
(***************************************************************************)

\* C3: one checkpoint has been persisted for every finished batch, and every
\* record whose completed result is not in the most recently persisted
\* checkpoint belongs to the batch in flight.
C3_CrashLosesOneBatch ==
    /\ Len(checkpoints) = i \div batch_size
    /\ \A k \in Ids :
          (Succeeded(k) /\ k \notin EntryIds(LastPersisted)) =>
              BatchOf(k) = CurrentBatch

\* C3 witness: the second batch has completed results that are not persisted
\* yet, while the first batch's are in the last checkpoint.
C3_Witness ==
    /\ pc = "save"
    /\ Len(checkpoints) = 1
    /\ LastPersisted # <<>>
    /\ \E k \in Ids : Succeeded(k) /\ k \notin EntryIds(LastPersisted)

(***************************************************************************)
(* C4  Checkpoints are append-only.                                        *)
(***************************************************************************)

\* C4: the entries persisted for batch b are a prefix of the entries
\* persisted for batch b+1.
C4_CheckpointsAppendOnly ==
    \A b \in 1..Len(checkpoints) :
        /\ checkpoints[b].batch_number = b
        /\ b > 1 => IsPrefix(checkpoints[b - 1].document.results,
                             checkpoints[b].document.results)

\* C4 witness: two checkpoints, the first not empty, the second longer.
C4_Witness ==
    /\ Len(checkpoints) >= 2
    /\ Len(checkpoints[1].document.results) > 0
    /\ Len(checkpoints[2].document.results)
           > Len(checkpoints[1].document.results)

(***************************************************************************)
(* C5  Transport failures never escalate.                                  *)
(***************************************************************************)

\* C5: no transport failure leaves the dispatcher as an exception; once a
\* batch has been combined every request of it that succeeded has its result
\* in the accumulated results, whatever its siblings did; and a run that
\* ends normally has sent the request of every prepared record of every
\* batch.
C5_TransportFailuresNeverEscalate ==
    /\ error # "transport"
    /\ pc \in {"save", "loop", "done"} =>
          \A k \in Ids : (issued[k] > 0 /\ Succeeded(k)) => k \in EntryIds(results)
    /\ pc = "done" =>
          \A k \in Ids : data[k].preparable => issued[k] = BatchOf(k)

\* C5 witness: a request of the first batch failed, its sibling succeeded and
\* is kept, and a later batch was processed to the end of the run.
C5_Witness ==
    /\ pc = "done"
    /\ \E k, j \in Ids :
          /\ k # j
          /\ issued[k] = 1 /\ Failed(k)
          /\ issued[j] = 1 /\ Succeeded(j) /\ j \in EntryIds(results)
    /\ \E k \in Ids : issued[k] = 2 /\ responses[k] # "none"

(***************************************************************************)
(* C6  Persistence failure is fatal.                                       *)
(***************************************************************************)

\* C6: when writing the checkpoint of batch b has failed the run is aborted,
\* nothing more can happen, and no request of a batch after b was sent.
C6_PersistenceFailureIsFatal ==
    error = "persist" =>
        /\ pc = "aborted"
        /\ ~ENABLED Next
        /\ Len(checkpoints) = batch_number - 1
        /\ \A k \in Ids : issued[k] <= batch_number

\* C6 witness: the checkpoint of the first batch failed while a later batch
\* with a preparable record was still to come.
C6_Witness ==
    /\ error = "persist"
    /\ batch_number = 1
    /\ \E k \in Ids : BatchOf(k) > 1 /\ data[k].preparable /\ issued[k] = 0

(***************************************************************************)
(* C7  Batch partition and order.                                          *)
(***************************************************************************)

\* The input positions batch b is to hold (1-based).
ExpectedBatch(b) ==
    [t \in 1..(Min(b * batch_size, Len(data)) - (b - 1) * batch_size) |->
        (b - 1) * batch_size + t]

\* C7: batch b holds exactly the records at the positions the partition
\* gives it; after the run every record was in exactly one batch; a request
\* is sent in the batch of its record only, and only once every request of
\* the earlier batches has ended and their checkpoints are persisted.
C7_BatchPartitionAndOrder ==
    /\ \A b \in 1..Len(batch_log) : batch_log[b] = ExpectedBatch(b)
    /\ pc = "done" =>
          \A k \in Ids :
              Cardinality({b \in 1..Len(batch_log) :
                              \E t \in 1..Len(batch_log[b]) : batch_log[b][t] = k}) = 1
    /\ \A k \in Ids :
          issued[k] > 0 =>
              /\ issued[k] = BatchOf(k)
              /\ Len(checkpoints) >= issued[k] - 1
              /\ \A j \in Ids :
                    (issued[j] > 0 /\ issued[j] < issued[k]) => responses[j] # "none"

\* C7 witness: a run of two batches, the last one shorter than batch_size,
\* whose request was sent in the second batch.
C7_Witness ==
    /\ pc = "done"
    /\ Len(batch_log) = 2
    /\ Len(batch_log[2]) < batch_size
    /\ issued[Len(data)] = 2

(***************************************************************************)
(* C8  Envelope failure is a per-record failure.                           *)
(***************************************************************************)

\* C8: a 2xx response whose body lacks choices[0].message.content is never
\* recorded as a successful analysis.
C8_EnvelopeFailureIsFailure ==
    \A j \in 1..Len(results) : results[j].analysis.value # "no_choices"

(***************************************************************************)
(* C9  Session release.                                                    *)
(***************************************************************************)

\* C9: at most one session is open; outside the client's scope (before it is
\* entered, after it is left normally or by an exception, after the run) no
\* session is open; every request was sent on an open session.
C9_SessionRelease ==
    /\ Cardinality(OpenSessions) <= 1
    /\ pc \notin {"dispatch", "inflight", "exit"} => OpenSessions = {}
    /\ \A k \in Ids : issued[k] > 0 => issued_on[k] = "open"

\* C9 witness: the first batch left the scope normally, the second by an
\* exception, and both sessions are closed.
C9_Witness ==
    /\ error = "cancelled"
    /\ Len(sessions) = 2
    /\ \A k \in Ids : data[k].preparable => issued[k] > 0

(***************************************************************************)
(* C10  Configuration failure is fatal at startup.                         *)
(***************************************************************************)

\* C10: with the credential missing no record is ever prepared or dispatched
\* and no checkpoint is ever written, and a run that had a batch to process
\* ends aborted by the configuration error.
C10_ConfigFailureBeforeAnyBatch ==
    ~api_key =>
        /\ market_contents = <<>> /\ market_details = <<>>
        /\ \A k \in Ids : issued[k] = 0
        /\ checkpoints = <<>>
        /\ (pc \in {"done", "aborted"} /\ Len(data) > 0) => error = "config"


(***************************************************************************)
(* C11  Termination with a checkpoint.                                     *)
(***************************************************************************)

Terminated == pc \in {"done", "aborted"}

\* The results accumulated through the last batch whose checkpoint was
\* written: when the write of the current batch failed, results already
\* holds that batch's entries.
PersistedThrough ==
    IF error = "persist"
    THEN SubSeq(results, 1, Len(results) - Len(batch_results))
    ELSE results

\* C11 (as stated): whenever the run has terminated a file exists (a
\* checkpoint, or the final file) whose content is the results accumulated
\* through the last persisted batch.
C11_TerminatesWithCheckpoint ==
    Terminated =>
        \/ /\ checkpoints # <<>>
           /\ LastPersisted = PersistedThrough
        \/ /\ final_file # <<>>
           /\ final_file[1].results = PersistedThrough

\* C11 (amended): every run terminates; once it has, the latest checkpoint,
\* if any batch was persisted, holds exactly the results accumulated through
\* the last persisted batch, and a run that ended normally has written one
\* checkpoint per batch and a final file with all the results.
C11_TerminatesAndCheckpointIsCurrent ==
    /\ <>Terminated
    /\ [](Terminated =>
            /\ checkpoints # <<>> => LastPersisted = PersistedThrough
            /\ pc = "done" =>
                  /\ final_file = <<Document(results)>>
                  /\ Len(checkpoints) = Len(batch_log))

\* C11 witness: the write of the second checkpoint failed; the first
\* checkpoint is the latest file and holds the first batch's results.
C11_Witness ==
    /\ pc = "aborted"
    /\ error = "persist"
    /\ Len(checkpoints) = 1
    /\ LastPersisted # <<>>
    /\ batch_results # <<>>

(***************************************************************************)
(* Vocabulary of the properties of parse_analysis_safely.                  *)
(***************************************************************************)

Returned == r_pc = "returned"

\* The analysis is a completion text, bare or inside a response envelope.
FromText == r_analysis.kind \in {"str", "choices_content"}

\* sub occurs in s as a run of consecutive symbols.
Occurs(sub, s) ==
    \E j \in 0..(Len(s) - Len(sub)) : SubSeq(s, j + 1, j + Len(sub)) = sub

\* The keys, strings, numbers and literals of a value, as character runs.
RECURSIVE LeavesOf(_)
LeavesOf(v) ==
    CASE v.t = "obj" ->
            UNION {{v.kv[j].k} \cup LeavesOf(v.kv[j].v) : j \in 1..Len(v.kv)}
      [] v.t = "arr" -> UNION {LeavesOf(v.kv[j].v) : j \in 1..Len(v.kv)}
      [] v.t \in {"str", "num"} -> {v.s}
      [] OTHER -> {<<v.t>>}

\* The characters occur in the text, as they are or as a JSON string writes
\* them.
Present(chars, text) == Occurs(chars, text) \/ Occurs(DumpChars(chars), text)


(***************************************************************************)
(* C12: for every completion text, parse_analysis_safely returns None or   *)
(* an object that has all four domain keys; it never returns an object     *)
(* with fewer.                                                             *)
(***************************************************************************)
C12_NeverPartialObject ==
    (Returned /\ FromText) =>
        (r_result = NoneVal \/ HasAllDomainKeys(r_result))


(***************************************************************************)
(* C13: when a call returns an object, serializing the object, wrapping it *)
(* in a json fence and calling again returns an equal object.              *)
(***************************************************************************)
C13_RepairIdempotent ==
    (Returned /\ r_round = 2) => r_result = r_first


C15_EnvelopeExtraction ==
    (r_pc = "cleaned" /\ r_round = 1 /\ FromText) =>
        r_candidate = Strip(IF HasFencedBlock(r_analysis.text)
                            THEN FencedInterior(r_analysis.text)
                            ELSE r_analysis.text)


(***************************************************************************)
(* C16: a well-formed four-domain assessment in a json fence, with a stray *)
(* newline after the closing fence and doubled quotes around the key       *)
(* "reasoning", is returned as an object with the original field values:   *)
(* economic_indicators.relevance is 9 and its reasoning is "CPI link".     *)
(***************************************************************************)
C16_FencedInputRecovered ==
    (Returned /\ r_round = 1 /\ r_analysis.text = Fenced(DoubledQuotes) \o <<NL>>) =>
        /\ Get(Get(r_result, DomainKeys[1]), "relevance") = NumVal(<<"9">>)
        /\ Get(Get(r_result, DomainKeys[1]), "reasoning")
               = StrVal(<<"CPI", SP, "link">>)


(***************************************************************************)
(* C17: after a failed first parse, only the rewrite of the reported error *)
(* class is applied, and only for the three recognized classes; for any    *)
(* other class the text is left as it is and None is returned.  json.loads *)
(* is called at most twice in a call.                                      *)
(***************************************************************************)
Recognized == {"comma", "unterminated", "colon"}

C17_TargetedRepairOnly ==
    /\ r_parses <= 2
    /\ r_error.err = "none" => r_rewrites = {}
    /\ (r_pc \in {"rewritten", "returned"} /\ r_error.err # "none") =>
          /\ r_rewrites = {r_error.err} \cap Recognized
          /\ r_error.err = "comma" => r_text = FixMissingCommas(r_before)
          /\ r_error.err = "unterminated" =>
                r_text = FixUnterminated(r_before, r_error.pos)
          /\ r_error.err = "colon" => r_text = FixMissingColons(r_before)
          /\ r_error.err \notin Recognized =>
                /\ r_text = r_before
                /\ Returned => r_result = NoneVal

\* A missing colon was reported, the colon rewrite alone was applied and the
\* second parse returned an object.
C17_Witness ==
    /\ Returned
    /\ r_error.err = "colon"
    /\ r_rewrites = {"colon"}
    /\ r_text # r_before
    /\ r_parses = 2
    /\ r_result.t = "obj"


(***************************************************************************)
(* C18: every key and every value of an object returned for a completion   *)
(* text occurs in that text.                                               *)
(***************************************************************************)
C18_NoFabrication ==
    (Returned /\ r_round = 1 /\ FromText /\ r_result.t = "obj") =>
        \A leaf \in LeavesOf(r_result) : Present(leaf, r_analysis.text)

(***************************************************************************)
(* Vocabulary of the properties of build_domain_context.                   *)
(***************************************************************************)

KnownDomain == a_domain \in DOMAIN domain_mapping

\* The market at position k of the input is in the returned list.
Listed(k) ==
    \E r \in 1..Len(a_context.markets) : a_context.markets[r].ticker = k

\* The market at position k has an assessment, whose sub-object of the
\* requested domain has impact true and a number >= 6 as relevance.
Admissible(k) ==
    LET assessment == parse_analysis_safely(a_data[k].analysis)
        sub == Get(assessment, domain_mapping[a_domain])
        relevance == Get(sub, "relevance")
    IN  /\ assessment.t = "obj"
        /\ Get(sub, "impact") = LitVal("true")
        /\ relevance.t = "num"
        /\ IntOf(relevance.s) >= 6


(***************************************************************************)
(* C19: for a known domain, a market is in the returned list if and only   *)
(* if it has an assessment whose sub-object of that domain has impact true *)
(* and a number >= 6 as relevance; no market is in the list twice.         *)
(***************************************************************************)
C19_AdmissionRule ==
    (a_pc = "done" /\ KnownDomain) =>
        /\ \A k \in 1..Len(a_data) : Listed(k) <=> Admissible(k)
        /\ \A k \in 1..Len(a_data) :
              Cardinality({r \in 1..Len(a_context.markets) :
                              a_context.markets[r].ticker = k}) <= 1


(***************************************************************************)
(* C20: the returned list is in non-increasing order of relevance, and     *)
(* markets of equal relevance are in the order of the input.               *)
(***************************************************************************)
C20_RankingStable ==
    a_pc = "done" =>
        \A r1, r2 \in 1..Len(a_context.markets) :
            r1 < r2 =>
                LET m1 == a_context.markets[r1]
                    m2 == a_context.markets[r2]
                IN  \/ m1.relevance_score > m2.relevance_score
                    \/ /\ m1.relevance_score = m2.relevance_score
                       /\ m1.ticker < m2.ticker

\* Three markets were admitted: the one that came first in the input has the
\* lowest relevance and is last, the other two are tied.
C20_Witness ==
    /\ a_pc = "done"
    /\ Len(a_context.markets) = 3
    /\ a_context.markets[1].relevance_score = a_context.markets[2].relevance_score
    /\ a_context.markets[2].relevance_score > a_context.markets[3].relevance_score
    /\ a_context.markets[3].ticker = 1


(***************************************************************************)
(* C21: a call with a domain outside the four known names returns status   *)
(* 'error' with an error message, market_count 0 and an empty list; a call *)
(* with a known domain returns status 'success' without an error message,  *)
(* also when no market qualifies, so the two results always differ.        *)
(***************************************************************************)
C21_UnknownDomainIsError ==
    a_pc = "done" =>
        IF KnownDomain
        THEN /\ a_context.status = "success"
             /\ "error" \notin DOMAIN a_context
             /\ a_context.market_count = Len(a_context.markets)
             /\ a_context # create_empty_context(a_domain)
        ELSE /\ a_context.status = "error"
             /\ "error" \in DOMAIN a_context
             /\ a_context.error # <<>>
             /\ a_context.market_count = 0
             /\ a_context.markets = <<>>

\* A call with an unknown domain returned, on data whose first market would
\* qualify for every known domain.
C21_Witness ==
    /\ a_pc = "done"
    /\ ~KnownDomain
    /\ Len(a_data) >= 2
    /\ a_data[1].analysis = Assessed(LitVal("true"), NumVal(<<"9">>))
    /\ a_context.status = "error"


(***************************************************************************)
(* C22: when the relevance scores of the data are raised and nothing else  *)
(* changes, every market the first call listed for a known domain is also  *)
(* listed by the call on the raised data.                                  *)
(***************************************************************************)
C22_AdmissionMonotone ==
    (a_pc = "done" /\ a_round = 2 /\ KnownDomain) =>
        \A r \in 1..Len(a_first.markets) : Listed(a_first.markets[r].ticker)

\* The second call returned: a market listed with score 6 by the first call
\* is listed with score 9, and the list has grown.
C22_Witness ==
    /\ a_pc = "done"
    /\ a_round = 2
    /\ KnownDomain
    /\ Len(a_context.markets) > Len(a_first.markets)
    /\ \E r1 \in 1..Len(a_first.markets) : \E r2 \in 1..Len(a_context.markets) :
          /\ a_first.markets[r1].ticker = a_context.markets[r2].ticker
          /\ a_first.markets[r1].relevance_score = 6
          /\ a_context.markets[r2].relevance_score = 9


(***************************************************************************)
(* Vocabulary of the properties of the request builder.                    *)
(***************************************************************************)

\* The details are in the order in which they were loaded (a detail's id is
\* its position in the loaded list).
InInputOrder(details) == \A j \in 1..Len(details) : details[j].id = j

\* Every outcome question of the record has a currency symbol and a
\* directional verb.
EveryQuestionIsPrice(details) ==
    \A j \in 1..Len(details) :
        /\ details[j].question # MissingKey
        /\ is_price_market(details[j].question)


(***************************************************************************)
(* C23: an input market record is never changed: after a call of the       *)
(* builder on a record, and when a run of the dispatcher has ended, every  *)
(* record's list of details is equal to the list that was loaded, order    *)
(* included.                                                               *)
(***************************************************************************)
C23_InputNeverMutated ==
    /\ b_pc = "on" => b_details = b_input
    /\ pc = "done" =>
          \A k \in Ids : InInputOrder(data[k].markets_detail)


(***************************************************************************)
(* C24: for a record with at least one outcome question, the builder       *)
(* returns the price-ladder prompt if and only if every question has a     *)
(* currency symbol and a directional verb; otherwise it returns the        *)
(* question-list prompt, which lists every question of the record, in      *)
(* order, with the first listed price as its probability.                  *)
(***************************************************************************)
C24_VariantSelection ==
    (b_calls # <<>> /\ b_input # <<>> /\ ~b_calls[1].raised) =>
        LET prompt == b_calls[1].prompt IN
        IF EveryQuestionIsPrice(b_input)
        THEN prompt.variant = "price"
        ELSE /\ prompt.variant = "regular"
             /\ prompt.lines =
                   [j \in 1..Len(b_input) |->
                       [text |-> b_input[j].question,
                        probability |-> IF b_input[j].outcomePrices = <<>> THEN 0
                                        ELSE b_input[j].outcomePrices[1]]]


(***************************************************************************)
(* C25: with the date stamp fixed, a call on a record and a call on an     *)
(* equal record return the same prompt, and two successive calls on the    *)
(* same record return the same prompt.                                     *)
(***************************************************************************)
C25_PromptDeterminism ==
    /\ (b_calls # <<>> /\ b_equal # <<>>) => b_calls[1] = b_equal[1]
    /\ Len(b_calls) >= 2 => b_calls[1] = b_calls[2]


(***************************************************************************)
(* C26: in a run that has ended normally a remote request was issued for   *)
(* every input record, and no record is ever issued a second request.      *)
(***************************************************************************)
C26_OneRequestPerRecord ==
    /\ [](pc = "done" => \A k \in Ids : issued[k] > 0)
    /\ [][\A k \in Ids : issued[k] # 0 => issued'[k] = issued[k]]_vars
    /\ [](\A t1, t2 \in 1..Len(market_contents) :
              t1 # t2 => market_contents[t1].prompt_of # market_contents[t2].prompt_of)


(***************************************************************************)
(* C27: in the accumulated results, in every checkpoint and in the final   *)
(* file an input record has at most one entry.                             *)
(***************************************************************************)
AtMostOneEntryEach(res) ==
    \A j1, j2 \in 1..Len(res) :
        j1 # j2 => res[j1].market_details.ticker # res[j2].market_details.ticker

C27_Uniqueness ==
    /\ AtMostOneEntryEach(results)
    /\ \A c \in 1..Len(checkpoints) : AtMostOneEntryEach(checkpoints[c].document.results)
    /\ \A f \in 1..Len(final_file) : AtMostOneEntryEach(final_file[f].results)

\* A run over two batches has ended with an entry for each of its records.
C27_Witness ==
    /\ pc = "done"
    /\ Len(checkpoints) >= 2
    /\ Len(data) >= 3
    /\ Len(results) = Len(data)
    /\ final_file = <<Document(results)>>


(***************************************************************************)
(* C28: a delay is awaited between the end of every batch and the start of *)
(* the next one, so that b - 1 delays have been awaited when batch b is    *)
(* started, and none is awaited after the last batch.                      *)
(***************************************************************************)
C28_DelayBetweenBatches ==
    /\ batch_log # <<>> => delays >= Len(batch_log) - 1
    /\ delays <= Len(batch_log)
    /\ (pc = "done" /\ batch_log # <<>>) => delays = Len(batch_log) - 1


(***************************************************************************)
(* C30: the accumulated results change only when every request of the      *)
(* current batch has completed or failed, and then by the whole batch at   *)
(* once; every checkpoint holds exactly the successful records of whole    *)
(* batches, never a part of a batch.                                       *)
(***************************************************************************)
C30_FanInBarrier ==
    /\ [][results' # results =>
            /\ pc = "exit"
            /\ \A t \in 1..Len(tasks) : tasks[t].state = "done"
            /\ results' = results \o batch_results]_vars
    /\ [](pc = "inflight" => results = LastPersisted)
    /\ [](\A c \in 1..Len(checkpoints) :
            EntryIds(checkpoints[c].document.results)
              = {k \in Ids : /\ BatchOf(k) <= checkpoints[c].batch_number
                             /\ data[k].preparable
                             /\ Succeeded(k)})

\* One request of a batch of two has returned a completion while the other
\* is still in flight, and nothing was accumulated yet.
C30_Witness ==
    /\ pc = "inflight"
    /\ Len(tasks) = 2
    /\ tasks[1].state = "pending"
    /\ tasks[2].state = "done"
    /\ ~tasks[2].exc
    /\ results = <<>>


(***************************************************************************)
(* Vocabulary of the properties of the document loaders.                   *)
(***************************************************************************)

LoadEnded == l_pc \in {"loaded", "failed"}

\* The text of the file parses as it is.
ParsesDirectly == json_loads(l_file).ok

\* The text cut after the last closing sequence in it.
TruncatedAtLast(s) == SubSeq(s, 1, rfind(s) + 3)


(***************************************************************************)
(* C29: a document that parses directly is used as it is, with no repair;  *)
(* a document that does not is repaired at most once, by cutting it after  *)
(* its last closing sequence, and parsed at most once more; when it has no *)
(* closing sequence, or the cut text does not parse, loading fails.        *)
(***************************************************************************)
C29_OneRepairAttempt ==
    LoadEnded =>
        IF ParsesDirectly
        THEN /\ l_content = l_file
             /\ l_repairs = 0
             /\ l_parses = 1
        ELSE /\ l_repairs <= 1
             /\ l_parses <= 2
             /\ l_repairs = 1 => l_content = TruncatedAtLast(l_file)
             /\ (rfind(l_file) = -1 \/ ~json_loads(TruncatedAtLast(l_file)).ok)
                    => l_pc = "failed"

(***************************************************************************)
(* C31  Output order is input order.                                       *)
(***************************************************************************)

\* The entries of a sequence of results are in the order of their records in
\* the input document.
InInputSequence(res) ==
    \A p, q \in 1..Len(res) :
        p < q => res[p].market_details.ticker < res[q].market_details.ticker

\* Record j's request ended before record k's, in the current batch.
EndedBefore(j, k) ==
    \E p, q \in 1..Len(completed) :
        p < q /\ completed[p] = j /\ completed[q] = k

\* C31: whatever the order in which the requests of a batch end, the entries
\* returned by the batch and the entries accumulated by the run are in the
\* relative order of their records in the input sequence.
C31_OutputOrderIsInputOrder ==
    /\ InInputSequence(batch_results)
    /\ InInputSequence(results)

\* The run holds two entries of one batch whose requests ended in the order
\* opposite to the input order.
C31_Witness ==
    \E p, q \in 1..Len(results) :
        /\ p < q
        /\ EndedBefore(results[q].market_details.ticker,
                       results[p].market_details.ticker)

(***************************************************************************)
(* C32  Result pairing.                                                    *)
(***************************************************************************)

\* Every entry of res holds the response to the request of its own record.
OwnResponses(res) ==
    \A j \in 1..Len(res) :
        /\ res[j].analysis.for = res[j].market_details.ticker
        /\ res[j].analysis.value = responses[res[j].market_details.ticker]

\* C32: every entry returned, accumulated or persisted pairs the details of a
\* record with the response to the prompt built from that record, whichever
\* records fail in preparation, whichever requests fail and in whatever order
\* the requests end.
C32_ResultPairing ==
    /\ OwnResponses(batch_results)
    /\ OwnResponses(results)
    /\ \A c \in 1..Len(checkpoints) : OwnResponses(checkpoints[c].document.results)
    /\ \A f \in 1..Len(final_file) : OwnResponses(final_file[f].results)

\* The run holds the entry of a record that came after a record of its batch
\* whose preparation failed, and a request of the run failed.
C32_Witness ==
    /\ \E p \in 1..Len(results) :
         \E j \in Ids :
            /\ j < results[p].market_details.ticker
            /\ BatchOf(j) = BatchOf(results[p].market_details.ticker)
            /\ ~data[j].preparable
    /\ \E k \in Ids : Failed(k)

(***************************************************************************)
(* C33  Aggregation is total and isolates defective entries.               *)
(***************************************************************************)

\* The entry at position k of the data is not in the context.
NotInContext(k) ==
    \A m \in 1..Len(a_context.markets) :
        a_context.markets[m].ticker # a_data[k].ticker

\* C33: build_domain_context never raises, whatever the entries; an entry
\* whose analysis is defective is not admitted, and the context built from
\* the data without it is the context built from the data with it: the same
\* markets, in the same order.
C33_DefectiveEntriesIsolated ==
    /\ a_pc # "raised"
    /\ a_pc = "done" =>
          \A k \in 1..Len(a_data) :
              a_data[k].analysis \in DefectiveAnalyses => NotInContext(k)
    /\ (a_pc = "done" /\ a_round = 3) => a_context = a_first

\* The call without a defective entry has returned two markets, the later
\* one of the data first, and the entry that was left out stood between them.
C33_Witness ==
    /\ a_pc = "done"
    /\ a_round = 3
    /\ a_context.market_count = 2
    /\ a_context.markets[1].ticker > a_context.markets[2].ticker
    /\ \E t \in 1..(Len(a_data) + 1) :
         /\ \A k \in 1..Len(a_data) : a_data[k].ticker # t
         /\ a_context.markets[2].ticker < t
         /\ t < a_context.markets[1].ticker

(***************************************************************************)
(* C34  Price-ladder ordering.                                             *)
(***************************************************************************)

\* The price a listed threshold names, thousands separators ignored.
NumericPrice(word) ==
    CASE word = "100" -> 100
      [] word = "100?" -> 100
      [] word = "200" -> 200
      [] word = "200?" -> 200
      [] word = "1,000" -> 1000
      [] OTHER -> 0

\* The line of the ladder that belongs to a price question.
OwnLine(detail) ==
    [text |-> <<"$", AfterDollar(detail.question).word, ":",
                IF HasWord(detail.question, ReachWords) THEN "reach" ELSE "dip to">>,
     probability |-> IF detail.outcomePrices = <<>> THEN 0
                     ELSE detail.outcomePrices[1]]

PriceQuestionsOf(details) ==
    {j \in 1..Len(details) : is_price_market(details[j].question)}

\* C34: in a price-ladder prompt the thresholds are listed in ascending
\* order of their price, and every price question of the record has its own
\* line, with its direction and its yes-probability.
C34_PriceLadderAscending ==
    b_pc = "on" =>
        \A c \in 1..Len(b_calls) :
            (~b_calls[c].raised /\ b_calls[c].prompt.variant = "price") =>
                LET lines == b_calls[c].prompt.lines IN
                /\ \A p, q \in 1..Len(lines) :
                      p < q => NumericPrice(lines[p].text[2])
                                  <= NumericPrice(lines[q].text[2])
                /\ \E f \in [1..Len(lines) -> PriceQuestionsOf(b_input)] :
                      /\ \A p, q \in 1..Len(lines) : p # q => f[p] # f[q]
                      /\ \A p \in 1..Len(lines) : lines[p] = OwnLine(b_input[f[p]])
                /\ Len(lines) = Cardinality(PriceQuestionsOf(b_input))

(***************************************************************************)
(* C35  The headline view is stricter than the domain view.                *)
(***************************************************************************)

\* The position of the category of the requested domain in DomainKeys.
CategoryOf(domain) ==
    CHOOSE j \in 1..Len(DomainKeys) : DomainKeys[j] = domain_mapping[domain]

\* C35: for the same analyzed markets and the same domain, every market the
\* headline categorization lists is in the context of the domain view.
C35_HeadlineWithinDomainView ==
    (a_pc = "done" /\ c_pc = "done") =>
        \A m \in 1..Len(c_categories[CategoryOf(a_domain)]) :
            \E n \in 1..Len(a_context.markets) :
                a_context.markets[n].ticker
                    = c_categories[CategoryOf(a_domain)][m].ticker

(***************************************************************************)
(* C36: when a run with at least one batch has completed normally, the     *)
(* results written to the final consolidated file are the results of the   *)
(* last checkpoint that was persisted, and in every file that was          *)
(* persisted total_markets is the number of entries of results.            *)
(***************************************************************************)
CountsItsResults(document) == document.total_markets = Len(document.results)

C36_FinalEqualsLastCheckpoint ==
    /\ (pc = "done" /\ batch_log # <<>>) =>
          /\ checkpoints # <<>>
          /\ Len(final_file) = 1
          /\ final_file[1].results = LastPersisted
    /\ \A c \in 1..Len(checkpoints) : CountsItsResults(checkpoints[c].document)
    /\ \A f \in 1..Len(final_file) : CountsItsResults(final_file[f])

\* A run over two batches has completed normally; a request of the first
\* batch and one of the second succeeded, one failed, so that the final
\* file holds more than the last batch and less than the input.
C36_Witness ==
    /\ pc = "done"
    /\ Len(checkpoints) = 2
    /\ Len(final_file) = 1
    /\ final_file[1].results = LastPersisted
    /\ Len(final_file[1].results) > Len(batch_results)
    /\ batch_results # <<>>
    /\ Len(final_file[1].results) < Len(data)
    /\ final_file[1].total_markets = Len(final_file[1].results)

(***************************************************************************)
(* C37: an analysis that is already an object, without a 'choices' key and *)
(* with all four domain keys, is returned as it is: no content is taken    *)
(* from it, nothing is cleaned, normalized, rewritten or parsed.  For an   *)
(* analysis that is missing or empty the call returns None.                *)
(***************************************************************************)
StructuredAnalysis ==
    /\ r_analysis.kind = "dict"
    /\ \A j \in 1..Len(DomainKeys) : HasKey(r_analysis.obj.kv, <<DomainKeys[j]>>)

MissingOrEmpty ==
    \/ r_analysis.kind = "missing"
    \/ r_analysis.kind = "str" /\ r_analysis.text = <<>>
    \/ r_analysis.kind = "dict" /\ r_analysis.obj.kv = <<>>

NothingApplied ==
    /\ r_content = NoContent
    /\ r_candidate = <<>>
    /\ r_text = <<>>
    /\ r_before = <<>>
    /\ r_rewrites = {}
    /\ r_parses = 0
    /\ r_caught = "none"

C37_StructuredPassThrough ==
    /\ StructuredAnalysis =>
          /\ r_pc \in {"call", "returned"}
          /\ NothingApplied
          /\ r_pc = "returned" => r_result = r_analysis.obj
    /\ MissingOrEmpty =>
          /\ r_pc \in {"call", "returned"}
          /\ NothingApplied
          /\ r_pc = "returned" => r_result = NoneVal

\* The call has returned an object of four domains whose reasoning holds a
\* newline; serialized and normalized, it would have lost the newline.
C37_Witness ==
    /\ r_pc = "returned"
    /\ r_round = 1
    /\ StructuredAnalysis
    /\ r_result = FourDomainNewlineObj
    /\ json_loads(Normalize(json_dumps(r_analysis.obj))).val # r_analysis.obj

\* The call has returned None for an analysis that is an empty object.
C37_WitnessEmpty ==
    /\ r_pc = "returned"
    /\ r_analysis.kind = "dict"
    /\ r_analysis.obj.kv = <<>>
    /\ r_result = NoneVal

====
